---- MODULE Spec2Model ----
(***************************************************************************)
(* Model of the material system of the renderer                            *)
(* (src/src/engine/renderer/Material.cpp).                                 *)
(*                                                                         *)
(*  - SpecMat    : GenerateWorldMaterials (ProcessStage classification,    *)
(*                 GenerateWorldMaterialsBuffer, GenerateWorldCommandBuffer),*)
(*                 UpdateDynamicSurfaces and Free.                          *)
(*  - SpecPortal : AddPortalSurfaces / AddPortalSurface with the frame      *)
(*                 rotation of EndFrame.                                    *)
(***************************************************************************)
EXTENDS Integers, Sequences, FiniteSets, TLC

(***************************************************************************)
(* Bounds of the model                                                     *)
(***************************************************************************)
\* number of ProcessSurface steps (draw surfaces classified) in one run
MaxSurfs == 3
\* stages of a shader
MaxStages == 2
\* stage instances (ProcessStage calls) classified in one execution
MaxInstances == 4
\* scaled-down stand-in of SURFACE_COMMANDS_PER_BATCH
SURFACE_COMMANDS_PER_BATCH == 2

\* range of the unsigned offsets: stand-in of 2^32, which the checker's integers cannot hold
U32 == 65536

\* scaled-down stand-ins of MAX_VIEWS and MAX_FRAMES
MAX_VIEWS == 3
MAX_FRAMES == 2
\* portal surfaces of the map
NumPortals == 2
\* frames ended in one run
MaxFrameCount == 4

Min(S) == CHOOSE x \in S : \A y \in S : x <= y

(***************************************************************************)
(* Inputs: shaders and their stages                                        *)
(***************************************************************************)
\* shader sort values: SS_DEPTH, a value in SS_ENVIRONMENT_FOG..SS_OPAQUE, a later value
SS_DEPTH == "SS_DEPTH"
SS_OPAQUE == "SS_OPAQUE"
SS_BLEND == "SS_BLEND"
Sorts == {SS_DEPTH, SS_OPAQUE, SS_BLEND}

\* shading families (pStage->shaderBinder / pStage->materialProcessor)
BindShaderGeneric3D == "Generic3D"
BindShaderLightMapping == "LightMapping"
Binders == {BindShaderGeneric3D, BindShaderLightMapping}

\* state bits of a stage: bit 0 stands for the blend bits, bit 1 for GLS_ATEST_BITS
GLS_KEPT_BITS == {0}
StateBitsSet == {{0, 1}}

CullTypes == {"CT_FRONT_SIDED"}
VBOs == {"worldVBO"}

\* material.shader->GetPaddedSize(): padded per-instance size in words of the family's uniform block
GetPaddedSize(binder) == IF binder = BindShaderGeneric3D THEN 2 ELSE 3

StageSet == [stateBits : StateBitsSet, shaderBinder : Binders, dynamic : BOOLEAN]

SeqsUpTo(S, n) == UNION {[1..k -> S] : k \in 1..n}

ShaderSet == [sort : Sorts, cullType : CullTypes, polygonOffset : {FALSE},
              stages : SeqsUpTo(StageSet, MaxStages)]

(***************************************************************************)
(* Material                                                                *)
(***************************************************************************)
\* a default-constructed Material (ProcessStage line 1400)
NewMaterial ==
  [id |-> 0, sort |-> 0, useSync |-> FALSE, syncMaterial |-> 0,
   stateBits |-> {}, shaderBinder |-> BindShaderGeneric3D, cullType |-> "CT_FRONT_SIDED",
   usePolygonOffset |-> FALSE, vbo |-> "worldVBO", ibo |-> "worldVBO",
   totalDrawSurfCount |-> 0, totalStaticDrawSurfCount |-> 0, totalDynamicDrawSurfCount |-> 0,
   currentStaticDrawSurfCount |-> 0, currentDynamicDrawSurfCount |-> 0,
   staticMaterialsSSBOOffset |-> 0, dynamicMaterialsSSBOOffset |-> 0,
   drawSurfs |-> << >>, drawCommands |-> << >>,
   surfaceCommandBatchOffset |-> 0, surfaceCommandBatchCount |-> 0, globalID |-> 0]

\* Material::operator== : the structural match of two Materials on the candidate key
\* (state bits, binder, cull type, polygon offset, buffers). The sync dependency is not
\* part of the match: the search loop of ProcessStage tests it on every match it finds.
MaterialEq(a, b) ==
  /\ a.stateBits = b.stateBits
  /\ a.shaderBinder = b.shaderBinder
  /\ a.cullType = b.cullType
  /\ a.usePolygonOffset = b.usePolygonOffset
  /\ a.vbo = b.vbo
  /\ a.ibo = b.ibo

\* the pack a shader sort maps to (materialPack, 0-based as in the code)
MaterialPackOf(sort) ==
  IF sort = SS_DEPTH THEN 0
  ELSE IF sort = SS_OPAQUE THEN 1
  ELSE 2

\* a sync dependency that always names Material 0
SyncZero(stage, previousMaterialID) ==
  IF stage > 0 THEN [useSync |-> TRUE, syncMaterial |-> 0]
  ELSE [useSync |-> FALSE, syncMaterial |-> 0]

\* the sync dependency of the candidate Material of stage `stage` (lines 1416-1419)
SyncOf(stage, previousMaterialID) ==
  IF stage > 0 THEN [useSync |-> TRUE, syncMaterial |-> previousMaterialID]
  ELSE [useSync |-> FALSE, syncMaterial |-> 0]

\* the candidate Material ProcessStage builds before the search
Candidate(shader, pStage, stage, previousMaterialID) ==
  LET sync == SyncOf(stage, previousMaterialID) IN
  [NewMaterial EXCEPT
     !.sort = MaterialPackOf(shader.sort),
     !.useSync = sync.useSync,
     !.syncMaterial = sync.syncMaterial,
     !.stateBits = pStage.stateBits \cap GLS_KEPT_BITS,
     !.shaderBinder = pStage.shaderBinder,
     !.cullType = shader.cullType,
     !.usePolygonOffset = shader.polygonOffset]

\* std::find( from, materials.end(), material ): 1-based position, Len + 1 for end()
StdFind(materials, from, material) ==
  LET hits == {i \in from..Len(materials) : MaterialEq(materials[i], material)} IN
  IF hits = {} THEN Len(materials) + 1 ELSE Min(hits)

RECURSIVE SearchFrom(_, _, _)
SearchFrom(materials, currentSearchIt, material) ==
  LET materialIt == StdFind(materials, currentSearchIt, material) IN
  IF materialIt = Len(materials) + 1 THEN materialIt
  ELSE IF material.useSync /\ materials[materialIt].id < material.syncMaterial
       THEN SearchFrom(materials, materialIt + 1, material)
       ELSE materialIt

\* a search that never looks at the first Material of the pack
SearchMaterialSkipFirst(materials, material) == SearchFrom(materials, 2, material)

\* a search that takes the first structural match whatever its id
SearchMaterialNoSync(materials, material) == StdFind(materials, 1, material)

\* the search loop of ProcessStage: position of the Material to use, Len + 1 if none
SearchMaterial(materials, material) == SearchFrom(materials, 1, material)

\* a static count that every stage advances
StaticCountAlways(count, dynamic) == count + 1

\* totalStaticDrawSurfCount++ in the else branch of lines 1469-1473
StaticCountIncr(count, dynamic) == IF dynamic THEN count ELSE count + 1

\* ProcessStage on stage `stage` of draw surface `ds`;
\* c = [packs, surfs, packIDs, previousMaterialID]
ProcessStage(c, ds, stage) ==
  LET drawSurf == c.surfs[ds]
      shader == drawSurf.shader
      pStage == shader.stages[stage + 1]
      materialPack == MaterialPackOf(shader.sort)
      id == c.packIDs[materialPack + 1]
      material == Candidate(shader, pStage, stage, c.previousMaterialID)
      materials == c.packs[materialPack + 1]
      materialIt == SearchMaterial(materials, material)
      found == materialIt # Len(materials) + 1
      previousMaterialID == IF found THEN materials[materialIt].id ELSE id
      materials1 == IF found THEN materials ELSE Append(materials, [material EXCEPT !.id = id])
      id1 == IF found THEN id ELSE id + 1
      m == materials1[previousMaterialID + 1]
      m1 == [m EXCEPT
               !.totalDrawSurfCount = @ + 1,
               !.totalDynamicDrawSurfCount = IF pStage.dynamic THEN @ + 1 ELSE @,
               !.totalStaticDrawSurfCount = StaticCountIncr(@, pStage.dynamic),
               !.drawSurfs = IF \E i \in 1..Len(@) : @[i] = ds THEN @ ELSE Append(@, ds)]
  IN [packs |-> [c.packs EXCEPT ![materialPack + 1] = [materials1 EXCEPT ![previousMaterialID + 1] = m1]],
      surfs |-> [c.surfs EXCEPT ![ds] = [@ EXCEPT !.materialIDs[stage + 1] = previousMaterialID,
                                                  !.materialPackIDs[stage + 1] = materialPack]],
      packIDs |-> [c.packIDs EXCEPT ![materialPack + 1] = id1],
      previousMaterialID |-> previousMaterialID]

RECURSIVE ProcessStages(_, _, _)
ProcessStages(c, ds, stage) ==
  IF stage >= Len(c.surfs[ds].shader.stages) THEN c
  ELSE ProcessStages(ProcessStage(c, ds, stage), ds, stage + 1)

\* a draw surface as R_AddWorldSurfaces leaves it
NewDrawSurf(shader, surface) ==
  LET n == Len(shader.stages) IN
  [surface |-> surface, shader |-> shader,
   materialIDs |-> [k \in 1..n |-> 0], materialPackIDs |-> [k \in 1..n |-> 0],
   materialsSSBOOffset |-> [k \in 1..n |-> 0], initialized |-> [k \in 1..n |-> FALSE],
   drawCommandIDs |-> [k \in 1..n |-> 0]]

(***************************************************************************)
(* GenerateWorldMaterialsBuffer                                            *)
(***************************************************************************)
\* the Materials of all packs in loop order: <<pack position, position in pack>>
RECURSIVE MatOrderFrom(_, _)
MatOrderFrom(packs, p) ==
  IF p > Len(packs) THEN << >>
  ELSE [i \in 1..Len(packs[p]) |-> <<p, i>>] \o MatOrderFrom(packs, p + 1)

MatOrder(packs) == MatOrderFrom(packs, 1)

\* a layout that starts every Material right at the running offset
PaddingNone(offset, paddedSize) == 0

\* padding that is added even at an integer multiple of paddedSize
PaddingFull(offset, paddedSize) == paddedSize - (offset % paddedSize)

\* padding that brings offset to the next integer multiple of paddedSize
Padding(offset, paddedSize) ==
  IF offset % paddedSize = 0 THEN 0 ELSE paddedSize - (offset % paddedSize)

\* first pass (lines 653-664): static regions; l = [packs, offset]
RECURSIVE LayoutStatic(_, _, _)
LayoutStatic(l, order, n) ==
  IF n > Len(order) THEN l
  ELSE LET p == order[n][1]
           i == order[n][2]
           material == l.packs[p][i]
           paddedSize == GetPaddedSize(material.shaderBinder)
           offset == l.offset + Padding(l.offset, paddedSize)
       IN LayoutStatic(
            [packs |-> [l.packs EXCEPT ![p][i].staticMaterialsSSBOOffset = offset],
             offset |-> offset + paddedSize * material.totalStaticDrawSurfCount],
            order, n + 1)

\* a dynamicDrawSurfsOffset taken before the padding of the first Material
FirstDynamicOffsetUnpadded(before, after) == before

\* the value recorded as dynamicDrawSurfsOffset when the first Material is laid out
\* (lines 678-682; before: the running offset without the padding; after: with it)
FirstDynamicOffset(before, after) == after

\* second pass (lines 666-687): dynamic regions;
\* l = [packs, offset, dynamicDrawSurfsOffset, dynamicDrawSurfOffsetSet]
RECURSIVE LayoutDynamic(_, _, _)
LayoutDynamic(l, order, n) ==
  IF n > Len(order) THEN l
  ELSE LET p == order[n][1]
           i == order[n][2]
           material == l.packs[p][i]
           paddedSize == GetPaddedSize(material.shaderBinder)
           offset == l.offset + Padding(l.offset, paddedSize)
       IN LayoutDynamic(
            [packs |-> [l.packs EXCEPT ![p][i].dynamicMaterialsSSBOOffset = offset],
             offset |-> offset + paddedSize * material.totalDynamicDrawSurfCount,
             dynamicDrawSurfsOffset |->
               IF l.dynamicDrawSurfOffsetSet THEN l.dynamicDrawSurfsOffset
               ELSE FirstDynamicOffset(l.offset, offset),
             dynamicDrawSurfOffsetSet |-> TRUE],
            order, n + 1)

\* lines 648-689: both passes; oldOffset is the dynamicDrawSurfsOffset left by an earlier build
Layout(packs, oldOffset) ==
  LET order == MatOrder(packs)
      s == LayoutStatic([packs |-> packs, offset |-> 0], order, 1)
      d == LayoutDynamic([packs |-> s.packs, offset |-> s.offset,
                          dynamicDrawSurfsOffset |-> oldOffset,
                          dynamicDrawSurfOffsetSet |-> FALSE], order, 1)
  IN [packs |-> d.packs, offset |-> d.offset,
      dynamicDrawSurfsOffset |-> d.dynamicDrawSurfsOffset,
      dynamicDrawSurfsSize |-> (d.offset + U32 - d.dynamicDrawSurfsOffset) % U32]

\* the words a stage's uniform payload carries: one tag per (surface, stage)
PayloadTag(drawSurf, stage) == drawSurf.surface * (MaxStages + 1) + stage + 1

\* WriteUniformsToBuffer( materials ): the payload at words at .. at + size - 1 of buf
WriteUniforms(buf, at, size, tag) ==
  [a \in 1..Len(buf) |-> IF a - 1 >= at /\ a - 1 < at + size THEN tag ELSE buf[a]]

\* UpdateSurfaceData*( materials, material, drawSurf, stage ) (lines 203-214, 248):
\* `base` is the word the mapped pointer `materials` starts at.
\* Returns the surface, the buffer and the writes made.
UpdateSurfaceData(buf, base, material, drawSurf, stage, log) ==
  LET pStage == drawSurf.shader.stages[stage + 1]
      paddedSize == GetPaddedSize(material.shaderBinder)
      paddedOffset == drawSurf.materialsSSBOOffset[stage + 1] * paddedSize
      updated == ~drawSurf.initialized[stage + 1] \/ pStage.dynamic
      at == base + paddedOffset
  IN IF ~updated THEN [drawSurf |-> drawSurf, buf |-> buf, log |-> log]
     ELSE [drawSurf |-> [drawSurf EXCEPT !.initialized[stage + 1] = TRUE],
           buf |-> WriteUniforms(buf, at, paddedSize, PayloadTag(drawSurf, stage)),
           log |-> log \cup {[surface |-> drawSurf.surface, stage |-> stage,
                              dynamic |-> pStage.dynamic, lo |-> at, hi |-> at + paddedSize]}]

\* a slot that leaves out the number of instances already placed
SlotFirst(SSBOOffset, drawSurfCount, paddedSize) == SSBOOffset \div paddedSize

\* the slot of an instance (lines 721-722): its word offset in units of the stride
SlotOf(SSBOOffset, drawSurfCount, paddedSize) ==
  (SSBOOffset + drawSurfCount * paddedSize) \div paddedSize

\* the stage loop of lines 702-751 for Material (p, i) and draw surface ds, from stage on;
\* b = [packs, surfs, buf, log, dynamicDrawSurfs, dynamicDrawSurfsOffset]
RECURSIVE BuildStages(_, _, _, _, _, _)
BuildStages(b, p, i, ds, stage, hasDynamicStages) ==
  LET drawSurf == b.surfs[ds]
      material == b.packs[p][i]
  IN
  IF stage >= Len(drawSurf.shader.stages) THEN
    IF hasDynamicStages
    THEN [b EXCEPT !.dynamicDrawSurfs = Append(@, drawSurf)]
    ELSE b
  ELSE IF drawSurf.materialIDs[stage + 1] # material.id
          \/ drawSurf.materialPackIDs[stage + 1] # p - 1
  THEN BuildStages(b, p, i, ds, stage + 1, hasDynamicStages)
  ELSE
    LET pStage == drawSurf.shader.stages[stage + 1]
        paddedSize == GetPaddedSize(material.shaderBinder)
        SSBOOffset == IF pStage.dynamic THEN material.dynamicMaterialsSSBOOffset
                      ELSE material.staticMaterialsSSBOOffset
        drawSurfCount == IF pStage.dynamic THEN material.currentDynamicDrawSurfCount
                         ELSE material.currentStaticDrawSurfCount
        material1 == IF pStage.dynamic
                     THEN [material EXCEPT !.currentDynamicDrawSurfCount = @ + 1]
                     ELSE [material EXCEPT !.currentStaticDrawSurfCount = @ + 1]
        absolute == SlotOf(SSBOOffset, drawSurfCount, paddedSize)
        ds1 == [drawSurf EXCEPT !.materialsSSBOOffset[stage + 1] = absolute]
        u == UpdateSurfaceData(b.buf, 0, material1, ds1, stage, b.log)
        \* colorRenderer -> AddDrawCommand( materialID, materialPackID, tess.currentSSBOOffset, .. )
        material2 == [material1 EXCEPT !.drawCommands = Append(@, [baseInstance |-> absolute])]
        lastCommandID == Len(material2.drawCommands) - 1
        rebased == (((SSBOOffset + U32 - b.dynamicDrawSurfsOffset) % U32) + drawSurfCount * paddedSize)
                     \div paddedSize
        ds2 == [u.drawSurf EXCEPT
                  !.drawCommandIDs[stage + 1] = lastCommandID,
                  !.materialsSSBOOffset[stage + 1] = IF pStage.dynamic THEN rebased ELSE @]
    IN BuildStages(
         [b EXCEPT !.packs[p][i] = material2, !.surfs[ds] = ds2, !.buf = u.buf, !.log = u.log],
         p, i, ds, stage + 1, hasDynamicStages \/ pStage.dynamic)

\* the drawSurfs loop of line 699 for Material (p, i), from position j of material.drawSurfs on
RECURSIVE BuildDrawSurfs(_, _, _, _)
BuildDrawSurfs(b, p, i, j) ==
  IF j > Len(b.packs[p][i].drawSurfs) THEN b
  ELSE BuildDrawSurfs(BuildStages(b, p, i, b.packs[p][i].drawSurfs[j], 0, FALSE), p, i, j + 1)

\* the pack and Material loops of lines 696-697
RECURSIVE BuildMaterials(_, _, _)
BuildMaterials(b, order, n) ==
  IF n > Len(order) THEN b
  ELSE BuildMaterials(BuildDrawSurfs(b, order[n][1], order[n][2], 1), order, n + 1)

(***************************************************************************)
(* GenerateWorldCommandBuffer (batch layout, lines 770-804)                *)
(***************************************************************************)
\* a batch count that rounds down
BatchCountFloor(cmdCount) == cmdCount \div SURFACE_COMMANDS_PER_BATCH

\* batchCount (lines 779-780): cmdCount / SURFACE_COMMANDS_PER_BATCH, rounded up
BatchCount(cmdCount) ==
  IF cmdCount % SURFACE_COMMANDS_PER_BATCH = 0
  THEN cmdCount \div SURFACE_COMMANDS_PER_BATCH
  ELSE cmdCount \div SURFACE_COMMANDS_PER_BATCH + 1

\* a total that keeps only the last Material's batch count
TotalBatchCountLast(totalBatchCount, batchCount) == batchCount

\* totalBatchCount += batchCount
TotalBatchCountAdd(totalBatchCount, batchCount) == totalBatchCount + batchCount

\* g = [packs, batchOffset, globalID, totalBatchCount]
RECURSIVE BatchLayout(_, _, _)
BatchLayout(g, order, n) ==
  IF n > Len(order) THEN g
  ELSE LET p == order[n][1]
           i == order[n][2]
           cmdCount == Len(g.packs[p][i].drawCommands)
           batchCount == BatchCount(cmdCount)
       IN BatchLayout(
            [packs |-> [g.packs EXCEPT ![p][i].surfaceCommandBatchOffset = g.batchOffset,
                                       ![p][i].surfaceCommandBatchCount = batchCount,
                                       ![p][i].globalID = g.globalID],
             batchOffset |-> g.batchOffset + batchCount,
             globalID |-> g.globalID + 1,
             totalBatchCount |-> TotalBatchCountAdd(g.totalBatchCount, batchCount)],
            order, n + 1)

(***************************************************************************)
(* UpdateDynamicSurfaces (lines 1623-1643)                                 *)
(***************************************************************************)
\* memset( materialsData, 0, 4 * dynamicDrawSurfsSize ) on the range mapped at `from`
ZeroRange(buf, from, size) ==
  [a \in 1..Len(buf) |-> IF a - 1 >= from /\ a - 1 < from + size THEN 0 ELSE buf[a]]

\* the stage loop for copy j of dynamicDrawSurfs; u = [dynamicDrawSurfs, buf, log]
RECURSIVE UpdateStages(_, _, _, _, _)
UpdateStages(u, packs, base, j, stage) ==
  LET drawSurf == u.dynamicDrawSurfs[j] IN
  IF stage >= Len(drawSurf.shader.stages) THEN u
  ELSE LET material == packs[drawSurf.materialPackIDs[stage + 1] + 1][drawSurf.materialIDs[stage + 1] + 1]
           r == UpdateSurfaceData(u.buf, base, material, drawSurf, stage, u.log)
       IN UpdateStages([dynamicDrawSurfs |-> [u.dynamicDrawSurfs EXCEPT ![j] = r.drawSurf],
                        buf |-> r.buf, log |-> r.log],
                       packs, base, j, stage + 1)

RECURSIVE UpdateDrawSurfs(_, _, _, _)
UpdateDrawSurfs(u, packs, base, j) ==
  IF j > Len(u.dynamicDrawSurfs) THEN u
  ELSE UpdateDrawSurfs(UpdateStages(u, packs, base, j, 0), packs, base, j + 1)

(***************************************************************************)
(* State of the material system                                            *)
(***************************************************************************)
VARIABLES
  pc,                          \* position of GenerateWorldMaterials: idle, classify, buffer, done
  drawSurfs,                   \* tr.refdef.drawSurfs: the surfaces classified so far
  materialPacks,               \* materialPacks[3], each a sequence of Materials
  packIDs,                     \* the next Material id of each pack
  processed,                   \* stage instances classified so far (bounded by MaxInstances)
  dynamicDrawSurfsOffset,
  dynamicDrawSurfsSize,
  dynamicDrawSurfs,            \* copies of the surfaces with dynamic stages
  materialsData,               \* the words of materialsSSBO
  writeLog,                    \* the payload writes of the last build or update
  totalBatchCount,
  surfaceCommandsCount,
  surfaceDescriptors,   \* the surfaceCommandIDs of the descriptor of every surface
  generatedWorldCommandBuffer

matVars == <<pc, drawSurfs, materialPacks, packIDs, processed, dynamicDrawSurfsOffset,
             dynamicDrawSurfsSize, dynamicDrawSurfs, materialsData, writeLog,
             totalBatchCount, surfaceCommandsCount, surfaceDescriptors, generatedWorldCommandBuffer>>

\* the state of the portal resolver
VARIABLES
  totalPortals,     \* number of portal surfaces
  portalSurfaces,   \* the portal surfaces kept by GeneratePortalBoundingSpheres: their drawSurfIDs
  frames,           \* frames[f].viewFrames[v]: viewCount, portalViews, portalSurfaceID
  currentFrame,
  nextFrame,
  viewCount,        \* MaterialSystem::viewCount
  portalStack,      \* portalStack[v]: count, views, drawSurf
  callStack,        \* the activations of AddPortalSurface, innermost last
  portalSurfs,      \* the distances read back for each view, once read
  offScreen,        \* PortalOffScreenOrOutOfRange of each portal surface in this call
  assigned,         \* the view ids handed out by the running AddPortalSurfaces call
  capHit,           \* a portal found portalViewID = MAX_VIEWS in the current call
  calls,            \* AddPortalSurface invocations of the running call
  portalResult,     \* what the outermost AddPortalSurface returned
  frameCount        \* frames ended

portalVars == <<totalPortals, portalSurfaces, frames, currentFrame, nextFrame, viewCount, portalStack,
                callStack, portalSurfs, offScreen, assigned, capHit, calls, portalResult,
                frameCount>>

\* the state of frame scheduling and culling
VARIABLES
  frameViewCount,   \* frames[f].viewCount: the views queued for culling in frame slot f
  dispatches,       \* the last CullSurfaces call: its inputs and its compute dispatches in order
  frameWrites,      \* (frame, view) slices CullSurfaces wrote since the last EndFrame
  frameReads,       \* (frame, view) slices RenderIndirect read since the last EndFrame
  targets           \* nextFrame of every frame ended by EndFrame; -1 marks a Free

frameVars == <<frameViewCount, dispatches, frameWrites, frameReads, targets>>

\* the state of texture residency
VARIABLES
  textures,          \* material.textures of every Material, in pack order
  resident,          \* the textures whose bindless handle is resident
  texturesResident,  \* material.texturesResident
  renderedMaterials, \* the Materials rendered since the frame started, oldest first
  frameStart,
  renderLog          \* what the RenderMaterial calls of the last RenderMaterials did

textureVars == <<textures, resident, texturesResident, renderedMaterials, frameStart,
                 renderLog>>

\* the draw command under construction
VARIABLES
  cmd,              \* cmd.textures, cmd.textureCount
  commands,         \* draw commands stored by AddDrawCommand
  dropped           \* Sys::Drop was called

cmdVars == <<cmd, commands, dropped>>

\* the views handed to CullSurfaces and the PVS lock
VARIABLES
  camera,           \* the origin and frustum of the live camera (set by the renderer)
  r_lockpvs,        \* the r_lockpvs cvar is 1
  viewFrustums,     \* origin and frustum of frames[f].viewFrames[0 .. viewCount - 1]
  PVSLocked,
  lockedFrustums,   \* lockedFrustums[v] and lockedOrigins[v], 0 if never stored
  lockSnapshot,     \* what the queued views held when the lock was last engaged
  glCommands        \* the dispatches and barriers of the last CullSurfaces

cullVars == <<camera, r_lockpvs, viewFrustums, PVSLocked, lockedFrustums, lockSnapshot,
              glCommands>>

restVars == <<frameVars, textureVars, cmdVars, cullVars>>

vars == <<matVars, portalVars, restVars>>

Views == 0..(MAX_VIEWS - 1)
Portals == 0..(NumPortals - 1)
\* distance of a portal surface in a view, -1 if it was culled; std::sort leaves the order
\* of equal distances open, so one distance of a visible surface yields every order
Distances == {-1, 1}

\* uint32_t portalViews[MAX_VIEWS] {}
ZeroViews == [j \in 1..MAX_VIEWS |-> 0]
\* a zeroed ViewFrame
ZeroViewFrame == [viewCount |-> 0, portalViews |-> ZeroViews, portalSurfaceID |-> 0]
\* the zeroed frames
ZeroFrames == [f \in 0..(MAX_FRAMES - 1) |-> [viewFrames |-> [v \in Views |-> ZeroViewFrame]]]
\* a PortalView with no surface
ZeroPortalView == [count |-> 0, views |-> ZeroViews, drawSurf |-> -1]
ZeroPortalStack == [v \in Views |-> ZeroPortalView]
\* no view of the area read yet
Unread == [v \in Views |-> << >>]

\* the portal resolver before any frame, with n portal surfaces
PortalStateInit(n) ==
  /\ totalPortals = n
  /\ portalSurfaces = [i \in 1..n |-> i - 1]
  /\ frames = ZeroFrames
  /\ currentFrame = 0
  /\ nextFrame = 1
  /\ viewCount = 0
  /\ portalStack = ZeroPortalStack
  /\ callStack = << >>
  /\ portalSurfs = Unread
  /\ offScreen = [p \in 0..(n - 1) |-> FALSE]
  /\ assigned = << >>
  /\ capHit = FALSE
  /\ calls = 0
  /\ portalResult = "none"
  /\ frameCount = 0

\* scaled-down stand-in of MAX_DRAWCOMMAND_TEXTURES
MAX_DRAWCOMMAND_TEXTURES == 3

\* frame scheduling before any frame
FrameStateInit ==
  /\ frameViewCount = [f \in 0..(MAX_FRAMES - 1) |-> 0]
  /\ dispatches = [occlusion |-> FALSE, frame |-> 0, viewCount |-> 0, log |-> << >>]
  /\ frameWrites = {}
  /\ frameReads = {}
  /\ targets = << >>

\* texture residency before any frame, for Materials with the texture lists tex
TextureStateInit(tex) ==
  /\ textures = tex
  /\ resident = {}
  /\ texturesResident = [m \in DOMAIN tex |-> FALSE]
  /\ renderedMaterials = << >>
  /\ frameStart = TRUE
  /\ renderLog = << >>

\* the cameras the renderer can be at
NumCameras == 2
Cameras == 1..NumCameras

\* no view stored, no lock: r_lockpvs has its default 0
CullStateInit ==
  /\ camera = 1
  /\ r_lockpvs = FALSE
  /\ viewFrustums = [f \in 0..(MAX_FRAMES - 1) |-> << >>]
  /\ PVSLocked = FALSE
  /\ lockedFrustums = [v \in 0..(MAX_VIEWS - 1) |-> 0]
  /\ lockSnapshot = [v \in 0..(MAX_VIEWS - 1) |-> 0]
  /\ glCommands = << >>

\* the draw command before any texture was added
CmdStateInit ==
  /\ cmd = [textures |-> [k \in 1..MAX_DRAWCOMMAND_TEXTURES |-> 0], textureCount |-> 0]
  /\ commands = << >>
  /\ dropped = FALSE

MatInit ==
  /\ PortalStateInit(0)
  /\ FrameStateInit
  /\ TextureStateInit(<< >>)
  /\ CmdStateInit
  /\ CullStateInit
  /\ pc = "idle"
  /\ drawSurfs = << >>
  /\ materialPacks = << << >>, << >>, << >> >>
  /\ packIDs = <<0, 0, 0>>
  /\ processed = 0
  /\ dynamicDrawSurfsOffset = 0
  /\ dynamicDrawSurfsSize = 0
  /\ dynamicDrawSurfs = << >>
  /\ materialsData = << >>
  /\ writeLog = {}
  /\ totalBatchCount = 0
  /\ surfaceCommandsCount = 0
  /\ surfaceDescriptors = << >>
  /\ generatedWorldCommandBuffer = FALSE

\* GenerateWorldMaterials up to its surface loop (lines 1491-1515)
BeginGenerateWorldMaterials ==
  /\ UNCHANGED <<portalVars, restVars>>
  /\ pc = "idle"
  /\ ~generatedWorldCommandBuffer
  /\ pc' = "classify"
  /\ drawSurfs' = << >>
  /\ packIDs' = <<0, 0, 0>>
  /\ UNCHANGED <<materialPacks, processed, dynamicDrawSurfsOffset, dynamicDrawSurfsSize,
                 dynamicDrawSurfs, materialsData, writeLog, totalBatchCount,
                 surfaceCommandsCount, surfaceDescriptors, generatedWorldCommandBuffer>>

\* one iteration of the surface loop (lines 1517-1553): every stage of one eligible surface
ProcessSurface ==
  /\ UNCHANGED <<portalVars, restVars>>
  /\ pc = "classify"
  /\ Len(drawSurfs) < MaxSurfs
  /\ \E shader \in ShaderSet :
       /\ processed + Len(shader.stages) <= MaxInstances
       /\ \E c \in {ProcessStages([packs |-> materialPacks,
                                     surfs |-> Append(drawSurfs, NewDrawSurf(shader, Len(drawSurfs) + 1)),
                                     packIDs |-> packIDs,
                                     previousMaterialID |-> 0], Len(drawSurfs) + 1, 0)} :
             /\ drawSurfs' = c.surfs
             /\ materialPacks' = c.packs
             /\ packIDs' = c.packIDs
             /\ processed' = processed + Len(shader.stages)
  /\ UNCHANGED <<pc, dynamicDrawSurfsOffset, dynamicDrawSurfsSize, dynamicDrawSurfs,
                 materialsData, writeLog, totalBatchCount, surfaceCommandsCount, surfaceDescriptors,
                 generatedWorldCommandBuffer>>

\* lines 645-764, called at line 1555
GenerateWorldMaterialsBuffer ==
  /\ UNCHANGED <<portalVars, restVars>>
  /\ pc = "classify"
  /\ \E l \in {Layout(materialPacks, dynamicDrawSurfsOffset)} :
     \E b \in {BuildMaterials([packs |-> l.packs, surfs |-> drawSurfs,
                              buf |-> [a \in 1..l.offset |-> 0], log |-> {},
                              dynamicDrawSurfs |-> dynamicDrawSurfs,
                              dynamicDrawSurfsOffset |-> l.dynamicDrawSurfsOffset],
                             MatOrder(l.packs), 1)} :
        /\ dynamicDrawSurfsOffset' = l.dynamicDrawSurfsOffset
        /\ dynamicDrawSurfsSize' = l.dynamicDrawSurfsSize
        /\ materialPacks' = b.packs
        /\ drawSurfs' = b.surfs
        /\ materialsData' = b.buf
        /\ writeLog' = b.log
        /\ dynamicDrawSurfs' = b.dynamicDrawSurfs
  /\ pc' = "buffer"
  /\ UNCHANGED <<packIDs, processed, totalBatchCount, surfaceCommandsCount, surfaceDescriptors,
                 generatedWorldCommandBuffer>>

\* GeneratePortalBoundingSpheres (lines 1836-1890): every surface of portalSurfacesTmp is
\* appended to portalSurfaces, its drawSurfID the index it gets (lines 1869-1873).
\* portalSurfacesTmp is filled outside this file; the worlds of one behaviour carry the
\* same number of portal surfaces, the one totalPortals holds (line 1839).
GeneratePortalBoundingSpheres(list, tmpSize) ==
  [i \in 1..(Len(list) + tmpSize) |-> IF i <= Len(list) THEN list[i] ELSE i - 1]

\* a command id without the batch offset of its Material
SurfaceCommandIDNoBatch(packs, drawSurf, stage) == drawSurf.drawCommandIDs[stage + 1]

\* cmdID = material->surfaceCommandBatchOffset * SURFACE_COMMANDS_PER_BATCH +
\* drawSurf->drawCommandIDs[stage] (line 915)
SurfaceCommandID(packs, drawSurf, stage) ==
  packs[drawSurf.materialPackIDs[stage + 1] + 1][drawSurf.materialIDs[stage + 1] + 1].surfaceCommandBatchOffset
    * SURFACE_COMMANDS_PER_BATCH + drawSurf.drawCommandIDs[stage + 1]

\* the command ids of the descriptor of a surface without depth pre-pass and fog
\* surfaces (lines 912-925): surface.surfaceCommandIDs[stage] = cmdID + 1
SurfaceDescriptor(packs, drawSurf) ==
  [stage \in 0..(Len(drawSurf.shader.stages) - 1) |-> SurfaceCommandID(packs, drawSurf, stage) + 1]

\* lines 767-940, called through AddAllWorldSurfaces at line 1575; then
\* GeneratePortalBoundingSpheres at line 1577 and line 1579
GenerateWorldCommandBuffer ==
  /\ portalSurfaces' = GeneratePortalBoundingSpheres(portalSurfaces, totalPortals)
  /\ UNCHANGED <<totalPortals, frames, currentFrame, nextFrame, viewCount, portalStack,
                 callStack, portalSurfs, offScreen, assigned, capHit, calls, portalResult,
                 frameCount>>
  /\ UNCHANGED restVars
  /\ pc = "buffer"
  /\ \E g \in {BatchLayout([packs |-> materialPacks, batchOffset |-> 0, globalID |-> 0,
                              totalBatchCount |-> 0], MatOrder(materialPacks), 1)} :
        /\ materialPacks' = g.packs
        /\ totalBatchCount' = g.totalBatchCount
        /\ surfaceCommandsCount' = g.totalBatchCount * SURFACE_COMMANDS_PER_BATCH
        /\ surfaceDescriptors' = [s \in 1..Len(drawSurfs) |-> SurfaceDescriptor(g.packs, drawSurfs[s])]
  /\ generatedWorldCommandBuffer' = TRUE
  /\ pc' = "done"
  /\ UNCHANGED <<drawSurfs, packIDs, processed, dynamicDrawSurfsOffset, dynamicDrawSurfsSize,
                 dynamicDrawSurfs, materialsData, writeLog>>

\* lines 1623-1643, once per frame
UpdateDynamicSurfaces ==
  /\ UNCHANGED <<portalVars, restVars>>
  /\ pc = "done"
  /\ IF dynamicDrawSurfsSize = 0
     THEN UNCHANGED <<dynamicDrawSurfs, materialsData, writeLog>>
     ELSE \E u \in {UpdateDrawSurfs(
                     [dynamicDrawSurfs |-> dynamicDrawSurfs,
                      buf |-> ZeroRange(materialsData, dynamicDrawSurfsOffset, dynamicDrawSurfsSize),
                      log |-> {}],
                     materialPacks, dynamicDrawSurfsOffset, 1)} :
             /\ dynamicDrawSurfs' = u.dynamicDrawSurfs
             /\ materialsData' = u.buf
             /\ writeLog' = u.log
  /\ UNCHANGED <<pc, drawSurfs, materialPacks, packIDs, processed, dynamicDrawSurfsOffset,
                 dynamicDrawSurfsSize, totalBatchCount, surfaceCommandsCount, surfaceDescriptors,
                 generatedWorldCommandBuffer>>

\* lines 1893-1931
Free ==
  /\ pc = "done"
  /\ callStack = << >>
  /\ generatedWorldCommandBuffer' = FALSE
  /\ portalStack' = IF totalPortals > 0 THEN ZeroPortalStack ELSE portalStack
  /\ currentFrame' = 0
  /\ nextFrame' = 1
  /\ UNCHANGED <<totalPortals, frames, viewCount, callStack, portalSurfs, offScreen, assigned,
                 capHit, calls, portalResult, frameCount>>
  /\ portalSurfaces' = << >>
  /\ dynamicDrawSurfs' = << >>
  /\ materialPacks' = << << >>, << >>, << >> >>
  /\ pc' = "idle"
  /\ renderedMaterials' = << >>
  /\ texturesResident' = [m \in DOMAIN texturesResident |-> FALSE]
  /\ targets' = IF targets # << >> /\ targets[Len(targets)] # -1
                THEN Append(targets, -1) ELSE targets
  /\ frameWrites' = {}
  /\ frameReads' = {}
  /\ UNCHANGED <<frameViewCount, dispatches, textures, resident, frameStart, renderLog, cmdVars, cullVars>>
  /\ UNCHANGED <<drawSurfs, packIDs, processed, dynamicDrawSurfsOffset, dynamicDrawSurfsSize,
                 materialsData, writeLog, totalBatchCount, surfaceCommandsCount, surfaceDescriptors>>

MatNext ==
  \/ BeginGenerateWorldMaterials
  \/ ProcessSurface
  \/ GenerateWorldMaterialsBuffer
  \/ GenerateWorldCommandBuffer
  \/ UpdateDynamicSurfaces
  \/ Free

SpecMat == MatInit /\ [][MatNext]_vars

(***************************************************************************)
(* Portal resolver: AddPortalSurfaces, AddPortalSurface, EndFrame          *)
(***************************************************************************)
\* std::sort of the area of one view by distance (lines 1962-1966): the orders of the
\* n portal surfaces with non-decreasing distance; equal distances come in any order
SortedSurfs(dist, n) ==
  {[k \in 1..n |-> [drawSurfID |-> s[k], distance |-> dist[s[k]]]] :
     s \in {t \in [1..n -> 0..(n - 1)] :
              /\ \A a, b \in 1..n : a # b => t[a] # t[b]
              /\ \A a, b \in 1..n : a < b => dist[t[a]] <= dist[t[b]]}}

\* the sorted areas a view can show: the one already read in this call, else any readback
TmpSurfsOf(view) ==
  IF portalSurfs[view] # << >>
  THEN {portalSurfs[view]}
  ELSE UNION {SortedSurfs(dist, totalPortals) : dist \in [0..(totalPortals - 1) -> Distances]}

\* a view id that is always the first
PortalViewIDFirst(count) == 1

\* uint32_t portalViewID = viewCount + 1 (line 1974)
PortalViewID(count) == count + 1

\* a resolver that never finds the views used up
ViewsNeverFull(portalViewID) == FALSE

\* if ( portalViewID == MAX_VIEWS ) continue (lines 1984-1986)
ViewsFull(portalViewID) == portalViewID = MAX_VIEWS

\* a viewCount that is never advanced
ViewCountKeep(count) == count

\* viewCount++ (line 1997)
ViewCountIncr(count) == count + 1

\* the loop of lines 2003-2013: the first sub-view of viewID in the current frame that
\* showed the portal surface drawSurfID, 0 if there is none
FindSubView(fr, viewID, drawSurfID) ==
  LET viewFrames == fr[currentFrame].viewFrames
      found == {j \in 0..(viewFrames[viewID].viewCount - 1) :
                  /\ viewFrames[viewID].portalViews[j + 1] # 0
                  /\ drawSurfID = viewFrames[viewFrames[viewID].portalViews[j + 1]].portalSurfaceID}
  IN IF found = {} THEN 0 ELSE viewFrames[viewID].portalViews[Min(found) + 1]

\* the entry of AddPortalSurface( viewID, portalSurfs ) (lines 1955-1966) on the frames fr,
\* the portal stack ps and the call stack cs, with the sorted area tmpSurfs
EnterPortalSurface(fr, ps, cs, viewID, tmpSurfs) ==
  /\ frames' = [fr EXCEPT ![nextFrame].viewFrames[viewID].viewCount = 0]
  /\ portalStack' = [ps EXCEPT ![viewID].count = 0]
  /\ portalSurfs' = [portalSurfs EXCEPT ![viewID] = tmpSurfs]
  /\ callStack' = Append(cs, [viewID |-> viewID, i |-> 0, count |-> 0,
                              portalViews |-> ZeroViews, tmpSurfs |-> tmpSurfs])
  /\ calls' = calls + 1

\* the return of the outermost AddPortalSurface and portalSurfacesSSBO.AreaIncr() (line 2036)
FinishPortalSurfaces(result) ==
  /\ callStack' = << >>
  /\ portalResult' = result
  /\ portalSurfs' = Unread
  /\ offScreen' = [p \in 0..(totalPortals - 1) |-> FALSE]
  /\ assigned' = << >>
  /\ calls' = 0

\* AddPortalSurfaces up to its call of AddPortalSurface( 0, portalSurfs ) (lines 2021-2035)
AddPortalSurfaces ==
  /\ callStack = << >>
  /\ \E lockpvs \in BOOLEAN :
       IF totalPortals = 0 \/ lockpvs
       THEN UNCHANGED vars
       ELSE /\ viewCount' = 0
            /\ assigned' = << >>
            /\ capHit' = FALSE
            /\ portalResult' = "none"
            /\ offScreen' \in [0..(totalPortals - 1) -> BOOLEAN]
            /\ \E dist \in [0..(totalPortals - 1) -> Distances] :
               \E tmpSurfs \in SortedSurfs(dist, totalPortals) :
                 /\ frames' = [frames EXCEPT ![nextFrame].viewFrames[0].viewCount = 0]
                 /\ portalStack' = [portalStack EXCEPT ![0].count = 0]
                 /\ portalSurfs' = [Unread EXCEPT ![0] = tmpSurfs]
                 /\ callStack' = <<[viewID |-> 0, i |-> 0, count |-> 0,
                                    portalViews |-> ZeroViews, tmpSurfs |-> tmpSurfs]>>
                 /\ calls' = 1
            /\ UNCHANGED <<restVars, matVars, totalPortals, portalSurfaces, currentFrame, nextFrame, frameCount>>

\* a loop iteration that takes one of the three `continue`s (lines 1969-1986)
AddPortalSurfaceSkip ==
  /\ callStack # << >>
  /\ LET top == callStack[Len(callStack)]
     IN /\ top.i < totalPortals
        /\ LET portalSurface == top.tmpSurfs[top.i + 1]
               portalViewID == PortalViewID(viewCount)
           IN /\ \/ portalSurface.distance = -1
                 \/ offScreen[portalSurface.drawSurfID]
                 \/ ViewsFull(portalViewID)
              /\ capHit' = (capHit \/ (/\ portalSurface.distance # -1
                                       /\ ~offScreen[portalSurface.drawSurfID]))
        /\ callStack' = [callStack EXCEPT ![Len(callStack)].i = top.i + 1]
  /\ UNCHANGED <<restVars, matVars, totalPortals, portalSurfaces, frames, currentFrame, nextFrame, viewCount,
                 portalStack, portalSurfs, offScreen, assigned, calls, portalResult,
                 frameCount>>

\* a loop iteration that gives the portal surface a view (lines 1969-2013): it returns
\* false, calls AddPortalSurface for a sub-view of the current frame, or goes on
AddPortalSurfaceAssign ==
  /\ callStack # << >>
  /\ LET top == callStack[Len(callStack)]
     IN /\ top.i < totalPortals
        /\ LET portalSurface == top.tmpSurfs[top.i + 1]
               portalViewID == PortalViewID(viewCount)
               viewID == top.viewID
               count == top.count + 1
               frames1 == [frames EXCEPT
                  ![nextFrame].viewFrames[portalViewID].portalSurfaceID = portalSurface.drawSurfID,
                  ![nextFrame].viewFrames[viewID].viewCount = @ + 1]
               portalStack1 == [portalStack EXCEPT
                  ![viewID].views[top.count + 1] = portalViewID,
                  ![portalViewID].drawSurf = portalSurface.drawSurfID,
                  ![viewID].count = @ + 1]
               callStack1 == [callStack EXCEPT
                  ![Len(callStack)].portalViews[top.count + 1] = portalViewID,
                  ![Len(callStack)].count = count]
               subView == FindSubView(frames1, viewID, portalSurface.drawSurfID)
               given == [view |-> portalViewID, drawSurfID |-> portalSurface.drawSurfID,
                         from |-> viewID]
           IN /\ portalSurface.distance # -1
              /\ ~offScreen[portalSurface.drawSurfID]
              /\ ~ViewsFull(portalViewID)
              /\ viewCount' = ViewCountIncr(viewCount)
              /\ IF count = MAX_VIEWS \/ viewCount' = MAX_VIEWS
                 THEN /\ FinishPortalSurfaces("false")
                      /\ frames' = frames1
                      /\ portalStack' = portalStack1
                 ELSE IF subView # 0
                 THEN /\ \E tmpSurfs \in TmpSurfsOf(subView) :
                           EnterPortalSurface(frames1, portalStack1, callStack1, subView, tmpSurfs)
                      /\ assigned' = Append(assigned, given)
                      /\ UNCHANGED <<portalResult, offScreen>>
                 ELSE /\ callStack' = [callStack1 EXCEPT ![Len(callStack)].i = top.i + 1]
                      /\ frames' = frames1
                      /\ portalStack' = portalStack1
                      /\ assigned' = Append(assigned, given)
                      /\ UNCHANGED <<portalSurfs, offScreen, calls, portalResult>>
  /\ UNCHANGED <<restVars, matVars, totalPortals, portalSurfaces, currentFrame, nextFrame, capHit, frameCount>>

\* the end of the loop: the memcpy of line 2016 and `return true`; the caller breaks out
\* of its sub-view loop (lines 2009-2010) and goes on with its next portal surface
AddPortalSurfaceReturn ==
  /\ callStack # << >>
  /\ LET top == callStack[Len(callStack)]
         rest == SubSeq(callStack, 1, Len(callStack) - 1)
     IN /\ top.i = totalPortals
        /\ frames' = [frames EXCEPT ![nextFrame].viewFrames[top.viewID].portalViews = top.portalViews]
        /\ IF rest = << >>
           THEN FinishPortalSurfaces("true")
           ELSE /\ callStack' = [rest EXCEPT ![Len(rest)].i = @ + 1]
                /\ UNCHANGED <<portalSurfs, offScreen, portalResult, assigned, calls>>
  /\ UNCHANGED <<restVars, matVars, totalPortals, portalSurfaces, currentFrame, nextFrame, viewCount, portalStack,
                 capHit, frameCount>>

\* a frame index that is never advanced
NextFrameStay(frame) == frame

\* a frame index that always wraps to 0
NextFrameZero(frame) == 0

\* nextFrame++; if ( nextFrame >= MAX_FRAMES ) nextFrame = 0 (lines 1830-1833)
NextFrameAfter(frame) == IF frame + 1 >= MAX_FRAMES THEN 0 ELSE frame + 1

\* a frame operation that never returns early
FrameNeverReturnsEarly == FALSE

\* if ( !generatedWorldCommandBuffer ) return, of StartFrame (lines 1814-1816) and of
\* EndFrame (lines 1826-1828)
FrameReturnsEarly == ~generatedWorldCommandBuffer

\* lines 1824-1834
EndFrame ==
  /\ callStack = << >>
  /\ frameCount < MaxFrameCount
  /\ frameCount' = frameCount + 1
  /\ IF FrameReturnsEarly
     THEN UNCHANGED <<currentFrame, nextFrame, targets, frameWrites, frameReads>>
     ELSE /\ currentFrame' = nextFrame
          /\ nextFrame' = NextFrameAfter(nextFrame)
          /\ targets' = Append(targets, nextFrame)
          /\ frameWrites' = {}
          /\ frameReads' = {}
  /\ UNCHANGED <<frameViewCount, dispatches, textureVars, cmdVars, cullVars>>
  /\ UNCHANGED <<matVars, totalPortals, portalSurfaces, frames, viewCount, portalStack, callStack,
                 portalSurfs, offScreen, assigned, capHit, calls, portalResult>>

\* the world generated from a map with no eligible surface and up to NumPortals portal
\* surfaces (GenerateWorldMaterials, then GeneratePortalBoundingSpheres at lines 1836-1890)
PortalInit ==
  /\ \E n \in 0..NumPortals : PortalStateInit(n)
  /\ FrameStateInit
  /\ TextureStateInit(<< >>)
  /\ CmdStateInit
  /\ CullStateInit
  /\ pc = "done"
  /\ drawSurfs = << >>
  /\ materialPacks = << << >>, << >>, << >> >>
  /\ packIDs = <<0, 0, 0>>
  /\ processed = 0
  /\ dynamicDrawSurfsOffset = 0
  /\ dynamicDrawSurfsSize = 0
  /\ dynamicDrawSurfs = << >>
  /\ materialsData = << >>
  /\ writeLog = {}
  /\ totalBatchCount = 0
  /\ surfaceCommandsCount = 0
  /\ surfaceDescriptors = << >>
  /\ generatedWorldCommandBuffer = TRUE

PortalNext ==
  \/ AddPortalSurfaces
  \/ AddPortalSurfaceSkip
  \/ AddPortalSurfaceAssign
  \/ AddPortalSurfaceReturn
  \/ EndFrame

SpecPortal == PortalInit /\ [][PortalNext]_vars

(***************************************************************************)
(* Properties of the material system                                       *)
(***************************************************************************)
\* the Materials of all packs, in pack order then in-pack order
Mats == LET order == MatOrder(materialPacks)
        IN [n \in 1..Len(order) |-> materialPacks[order[n][1]][order[n][2]]]

Stride(material) == GetPaddedSize(material.shaderBinder)

RECURSIVE SumTo(_, _)
SumTo(f, n) == IF n = 0 THEN 0 ELSE f[n] + SumTo(f, n - 1)

\* the classified stage instances <<surface, stage>>
Instances == {<<s, k>> \in (1..Len(drawSurfs)) \X (0..MaxStages + 1) :
                k < Len(drawSurfs[s].shader.stages)}

Classified == pc \in {"classify", "buffer", "done"}
Built == pc \in {"buffer", "done"}

\* the Material a stage instance is assigned to
MaterialOf(s, k) ==
  materialPacks[drawSurfs[s].materialPackIDs[k + 1] + 1][drawSurfs[s].materialIDs[k + 1] + 1]

\* the key of a Material
MaterialKey(m) ==
  <<m.stateBits, m.shaderBinder, m.cullType, m.usePolygonOffset, m.vbo, m.ibo,
    m.useSync, m.syncMaterial>>

\* the key of a stage instance: its masked state, its shader's state and its sync target
InstanceKey(s, k) ==
  LET shader == drawSurfs[s].shader
      pStage == shader.stages[k + 1]
  IN <<pStage.stateBits \cap GLS_KEPT_BITS, pStage.shaderBinder, shader.cullType,
       shader.polygonOffset, "worldVBO", "worldVBO",
       k > 0, IF k > 0 THEN drawSurfs[s].materialIDs[k] ELSE 0>>

\* the key of a Material or of a stage instance without the sync target
StructuralKey(key) == <<key[1], key[2], key[3], key[4], key[5], key[6]>>

\* C1: no pack holds two distinct Materials with the same key, and stage instances of
\* one pack with the same key are assigned to the same Material, which matches that key
C1_OneMaterialPerKey ==
  Classified =>
    /\ \A p \in 1..3 : \A i, j \in 1..Len(materialPacks[p]) :
         MaterialKey(materialPacks[p][i]) = MaterialKey(materialPacks[p][j]) => i = j
    /\ \A x \in Instances :
         StructuralKey(MaterialKey(MaterialOf(x[1], x[2]))) = StructuralKey(InstanceKey(x[1], x[2]))
    /\ \A x, y \in Instances :
         /\ drawSurfs[x[1]].materialPackIDs[x[2] + 1] = drawSurfs[y[1]].materialPackIDs[y[2] + 1]
         /\ InstanceKey(x[1], x[2]) = InstanceKey(y[1], y[2])
         => drawSurfs[x[1]].materialIDs[x[2] + 1] = drawSurfs[y[1]].materialIDs[y[2] + 1]

\* a pack with two Materials of one structural key, kept apart by the sync order, and two
\* surfaces with a stage of the same key in one Material
C1_Witness ==
  /\ Classified
  /\ \E p \in 1..3 : \E i, j \in 1..Len(materialPacks[p]) :
       /\ i < j
       /\ StructuralKey(MaterialKey(materialPacks[p][i])) = StructuralKey(MaterialKey(materialPacks[p][j]))
  /\ \E x, y \in Instances :
       /\ x[1] # y[1]
       /\ InstanceKey(x[1], x[2]) = InstanceKey(y[1], y[2])
       /\ drawSurfs[x[1]].materialPackIDs[x[2] + 1] = drawSurfs[y[1]].materialPackIDs[y[2] + 1]
       /\ drawSurfs[x[1]].materialIDs[x[2] + 1] = drawSurfs[y[1]].materialIDs[y[2] + 1]

\* C2: after GenerateWorldMaterialsBuffer every Material's static and dynamic offsets are
\* integer multiples of its own padded stride
C2_OffsetsAligned ==
  Built => \A n \in 1..Len(Mats) :
             /\ Mats[n].staticMaterialsSSBOOffset % Stride(Mats[n]) = 0
             /\ Mats[n].dynamicMaterialsSSBOOffset % Stride(Mats[n]) = 0

\* the end of the region of Material n
StaticEnd(n) == Mats[n].staticMaterialsSSBOOffset + Stride(Mats[n]) * Mats[n].totalStaticDrawSurfCount
DynamicEnd(n) == Mats[n].dynamicMaterialsSSBOOffset + Stride(Mats[n]) * Mats[n].totalDynamicDrawSurfCount

\* Materials of different strides, one of them padded in the static and one in the dynamic pass
C2_Witness ==
  /\ Built
  /\ \E n \in 2..Len(Mats) : /\ Stride(Mats[n]) # Stride(Mats[n - 1])
                             /\ Mats[n].staticMaterialsSSBOOffset > StaticEnd(n - 1)
  /\ \E n \in 2..Len(Mats) : Mats[n].dynamicMaterialsSSBOOffset > DynamicEnd(n - 1)

\* sum over all Materials of paddedStride * totalDynamicDrawSurfCount
DynamicInstanceWords ==
  SumTo([n \in 1..Len(Mats) |-> Stride(Mats[n]) * Mats[n].totalDynamicDrawSurfCount], Len(Mats))

\* the alignment padding in front of the dynamic regions of the Materials after the first
DynamicPaddingWords ==
  SumTo([n \in 1..Len(Mats) |->
           IF n = 1 THEN 0 ELSE Mats[n].dynamicMaterialsSSBOOffset - DynamicEnd(n - 1)], Len(Mats))

\* C3 as stated: the dynamic size is the sum of paddedStride * totalDynamicDrawSurfCount
C3_SizeIsInstanceSum ==
  Built => dynamicDrawSurfsSize = DynamicInstanceWords

\* C3 amended: the dynamic size is that sum plus the alignment padding between the dynamic
\* regions of consecutive Materials (none when all strides are equal); with no Material
\* dynamicDrawSurfsOffset keeps its old value and the size is 0 minus it, modulo the word range
C3_SizeIsSumPlusPadding ==
  Built =>
    IF Len(Mats) = 0
    THEN dynamicDrawSurfsSize = (U32 - dynamicDrawSurfsOffset) % U32
    ELSE /\ dynamicDrawSurfsSize = DynamicInstanceWords + DynamicPaddingWords
         /\ dynamicDrawSurfsOffset = Mats[1].dynamicMaterialsSSBOOffset
         /\ \A n \in 2..Len(Mats) :
              /\ Mats[n].dynamicMaterialsSSBOOffset - DynamicEnd(n - 1) >= 0
              /\ Mats[n].dynamicMaterialsSSBOOffset - DynamicEnd(n - 1) < Stride(Mats[n])
         /\ (\A n \in 1..Len(Mats) : Stride(Mats[n]) = Stride(Mats[1]))
              => dynamicDrawSurfsSize = DynamicInstanceWords

\* Materials of different strides with dynamic instances, padding between their dynamic
\* regions and in front of the first one
C3_Witness ==
  /\ Built
  /\ DynamicPaddingWords > 0
  /\ DynamicInstanceWords > 0
  /\ Len(Mats) >= 2
  /\ dynamicDrawSurfsOffset > StaticEnd(Len(Mats))

\* the words of the dynamic range
InDynamicRange(a) ==
  a >= dynamicDrawSurfsOffset /\ a < dynamicDrawSurfsOffset + dynamicDrawSurfsSize

\* C4: no payload of a static stage instance is written to a word of the dynamic range,
\* by the build or by an update
C4_NoStaticPayloadInDynamicRange ==
  Built => \A w \in writeLog : ~w.dynamic => \A a \in w.lo..(w.hi - 1) : ~InDynamicRange(a)

\* C5: an UpdateDynamicSurfaces call leaves the static region unchanged and writes only
\* words of the dynamic range
C5_UpdateWritesOnlyDynamicRange ==
  [][UpdateDynamicSurfaces =>
       /\ \A a \in 1..Len(materialsData) :
            a - 1 < dynamicDrawSurfsOffset => materialsData'[a] = materialsData[a]
       /\ \A w \in writeLog' : \A a \in w.lo..(w.hi - 1) : InDynamicRange(a)]_matVars

\* C6: after GenerateWorldCommandBuffer the batch offsets do not decrease along the
\* Materials in pack order and the batch counts add up to totalBatchCount
C6_BatchOffsetsMonotone ==
  pc = "done" =>
    /\ \A n \in 2..Len(Mats) :
         Mats[n - 1].surfaceCommandBatchOffset <= Mats[n].surfaceCommandBatchOffset
    /\ SumTo([n \in 1..Len(Mats) |-> Mats[n].surfaceCommandBatchCount], Len(Mats)) = totalBatchCount

\* several Materials, one with a full batch of commands and one after the first batch
C6_Witness ==
  /\ pc = "done"
  /\ Len(Mats) >= 2
  /\ \E n \in 1..Len(Mats) : Len(Mats[n].drawCommands) = SURFACE_COMMANDS_PER_BATCH
  /\ \E n \in 1..Len(Mats) : Mats[n].surfaceCommandBatchOffset >= 1
  /\ totalBatchCount >= 2

\* the stage instance a Material was made for: the first stage assigned to it of the
\* first surface of its drawSurfs
FirstStageOf(p, i) ==
  LET s == materialPacks[p][i].drawSurfs[1]
  IN Min({k \in 0..(Len(drawSurfs[s].shader.stages) - 1) :
            /\ drawSurfs[s].materialPackIDs[k + 1] = p - 1
            /\ drawSurfs[s].materialIDs[k + 1] = i - 1})

\* C10 as stated: the Material of a stage k > 0 has useSync set and syncMaterial equal to
\* the id of the Material of stage k - 1 of the same surface
C10_SyncIsPreviousStage ==
  Classified =>
    \A x \in Instances :
      x[2] > 0 => /\ MaterialOf(x[1], x[2]).useSync
                  /\ MaterialOf(x[1], x[2]).syncMaterial = drawSurfs[x[1]].materialIDs[x[2]]

\* C10 amended: the Material of a stage k > 0 never precedes the Material of stage k - 1
\* (its id is not less); a Material made for a stage k > 0 has useSync set and syncMaterial
\* equal to the id of the Material of stage k - 1, which precedes it; a Material made for
\* a first stage has no sync; a matched Material keeps the sync it was made with
C10_SyncOfMadeMaterial ==
  Classified =>
    /\ \A x \in Instances :
         x[2] > 0 => MaterialOf(x[1], x[2]).id >= drawSurfs[x[1]].materialIDs[x[2]]
    /\ \A p \in 1..3 : \A i \in 1..Len(materialPacks[p]) :
         LET m == materialPacks[p][i]
             k == FirstStageOf(p, i)
         IN /\ m.id = i - 1
            /\ m.useSync = (k > 0)
            /\ k > 0 => /\ m.syncMaterial = drawSurfs[m.drawSurfs[1]].materialIDs[k]
                        /\ m.syncMaterial < m.id

\* a second stage whose Material has its sync target, and one matched to a Material with
\* another sync target
C10_Witness ==
  /\ Classified
  /\ \E x \in Instances :
       /\ x[2] > 0
       /\ MaterialOf(x[1], x[2]).useSync
       /\ MaterialOf(x[1], x[2]).syncMaterial = drawSurfs[x[1]].materialIDs[x[2]]
  /\ \E x \in Instances :
       /\ x[2] > 0
       /\ MaterialOf(x[1], x[2]).useSync
       /\ MaterialOf(x[1], x[2]).syncMaterial # drawSurfs[x[1]].materialIDs[x[2]]

(***************************************************************************)
(* Properties of the portal resolver                                       *)
(***************************************************************************)
\* C7: in one AddPortalSurfaces call the view ids given to portal surfaces are pairwise
\* distinct and lie in 1..MAX_VIEWS-1
C7_ViewIdsDistinct ==
  /\ \A a, b \in 1..Len(assigned) : a # b => assigned[a].view # assigned[b].view
  /\ \A a \in 1..Len(assigned) : assigned[a].view \in 1..(MAX_VIEWS - 1)

\* every view id handed out, one of them inside a sub-view of the frame before
C7_Witness ==
  /\ Len(assigned) = MAX_VIEWS - 1
  /\ \E a \in 1..Len(assigned) : assigned[a].from # 0
  /\ frameCount >= 1

\* a view of the current frame that is its own sub-view
SelfSubView(v) ==
  \E j \in 1..frames[currentFrame].viewFrames[v].viewCount :
    frames[currentFrame].viewFrames[v].portalViews[j] = v

\* what is left of a running call: the loop iterations and the return of each nested
\* AddPortalSurface, and those of the calls the views not yet handed out allow
Remaining ==
  (MAX_VIEWS - 1 - viewCount) * (totalPortals + 2)
  + SumTo([a \in 1..Len(callStack) |-> totalPortals - callStack[a].i + 1], Len(callStack))

\* C8: at most MAX_VIEWS calls of AddPortalSurface are nested and at most MAX_VIEWS are
\* made in one AddPortalSurfaces call; a running call always has a next step, and every
\* step of it brings it nearer to its end, so it comes to its end
C8_Terminates ==
  /\ [](/\ Len(callStack) <= MAX_VIEWS
        /\ calls <= MAX_VIEWS
        /\ Remaining >= 0
        /\ \A a \in 1..Len(callStack) : callStack[a].i \in 0..totalPortals)
  /\ [][callStack # << >> => Remaining' < Remaining]_vars

\* MAX_VIEWS nested calls, a view entered again inside itself
C8_Witness ==
  /\ Len(callStack) = MAX_VIEWS
  /\ calls = MAX_VIEWS
  /\ \E a, b \in 1..Len(callStack) : a < b /\ callStack[a].viewID = callStack[b].viewID
  /\ SelfSubView(callStack[Len(callStack)].viewID)

\* C9 as stated: an AddPortalSurfaces call in which the views reached the cap, so that a
\* visible portal surface found no view left, ends with AddPortalSurface returning false
C9_CapReturnsFalse ==
  (callStack = << >> /\ capHit) => portalResult = "false"

\* C9 amended: AddPortalSurface never returns false; a visible portal surface is refused a
\* view only when the views 1..MAX_VIEWS-1 are all handed out, and from then on the running
\* call hands out no view: it skips the portal surfaces left and returns true
C9_CapSkipsPortals ==
  /\ [](/\ portalResult # "false"
        /\ viewCount <= MAX_VIEWS - 1
        /\ Len(assigned) <= MAX_VIEWS - 1
        /\ capHit => viewCount = MAX_VIEWS - 1)
  /\ [][(callStack # << >> /\ viewCount = MAX_VIEWS - 1) =>
          /\ viewCount' = viewCount
          /\ assigned' = assigned \/ (callStack' = << >> /\ portalResult' = "true")]_vars

\* a call that refused a visible portal surface a view has returned true
C9_Witness ==
  /\ callStack = << >>
  /\ capHit
  /\ portalResult = "true"
  /\ viewCount = MAX_VIEWS - 1
  /\ frameCount >= 1

(***************************************************************************)
(* Properties of the per-Material counts                                   *)
(***************************************************************************)
\* the stage instances assigned to Material i of pack p (both 1-based positions)
InstancesOf(p, i) ==
  {x \in Instances : /\ drawSurfs[x[1]].materialPackIDs[x[2] + 1] = p - 1
                     /\ drawSurfs[x[1]].materialIDs[x[2] + 1] = i - 1}

\* all classified surfaces have the same shader, and it has one stage
IdenticalSingleStage ==
  /\ Len(drawSurfs) >= 1
  /\ \A s \in 1..Len(drawSurfs) : /\ drawSurfs[s].shader = drawSurfs[1].shader
                                  /\ Len(drawSurfs[s].shader.stages) = 1

\* C11: after classification every Material's totalDrawSurfCount is the number of
\* (surface, stage) pairs assigned to it and the sum of its static and dynamic counts, the
\* static count being the number of its non-dynamic pairs; N surfaces with one identical
\* single-stage shader give exactly one Material, with totalDrawSurfCount = N
C11_CountsAreInstances ==
  Classified =>
    /\ \A p \in 1..3 : \A i \in 1..Len(materialPacks[p]) :
         LET m == materialPacks[p][i] IN
         /\ m.totalDrawSurfCount = Cardinality(InstancesOf(p, i))
         /\ m.totalDrawSurfCount = m.totalStaticDrawSurfCount + m.totalDynamicDrawSurfCount
         /\ m.totalStaticDrawSurfCount =
              Cardinality({x \in InstancesOf(p, i) : ~drawSurfs[x[1]].shader.stages[x[2] + 1].dynamic})
    /\ IdenticalSingleStage =>
         /\ Len(Mats) = 1
         /\ Mats[1].totalDrawSurfCount = Len(drawSurfs)

\* MaxSurfs surfaces with one identical single-stage shader in one Material
C11_Witness ==
  /\ Classified
  /\ IdenticalSingleStage
  /\ Len(drawSurfs) = MaxSurfs
  /\ Len(Mats) = 1
  /\ Mats[1].totalDrawSurfCount = MaxSurfs

(***************************************************************************)
(* Frame scheduling and culling: StartFrame, QueueSurfaceCull,             *)
(* CullSurfaces, RenderIndirect, EndFrame, Free                            *)
(***************************************************************************)
\* depthImageLevels (line 966): the mip levels GenerateDepthImages allocates, which is
\* also the number of iterations of the reduction loop (line 1686)
DepthImageLevels == 2

\* the (frame, view) slice of the culled-command and counter buffers:
\* MAX_VIEWS * frame + view (lines 1759, 1790, 2101, 2104)
SliceOf(frame, view) == MAX_VIEWS * frame + view

\* one compute dispatch
Dispatch(shader, frame, view, level) ==
  [shader |-> shader, frame |-> frame, view |-> view, level |-> level]

\* DepthReduction (lines 1661-1703): nothing under r_lockpvs, else the initial level and
\* one dispatch per further level of the depth image
DepthReduction(lockpvs) ==
  IF lockpvs THEN << >>
  ELSE <<Dispatch("depthReduction", -1, -1, 0)>>
       \o [i \in 1..DepthImageLevels |-> Dispatch("depthReduction", -1, -1, i)]

\* a CullSurfaces that reduces the depth image whatever the flag says
DepthReductionAlways(occlusion, lockpvs) == DepthReduction(lockpvs)

\* if ( r_gpuOcclusionCulling.Get() ) DepthReduction() (lines 1706-1708)
DepthReductionIf(occlusion, lockpvs) ==
  IF occlusion THEN DepthReduction(lockpvs) ELSE << >>

\* the view loop of CullSurfaces (lines 1727-1794) from view on: the cull dispatch
\* (line 1785), then the process-surfaces dispatch (line 1793) of every view
RECURSIVE CullViews(_, _, _)
CullViews(frame, view, count) ==
  IF view >= count THEN << >>
  ELSE <<Dispatch("cull", frame, view, 0), Dispatch("processSurfaces", frame, view, 0)>>
       \o CullViews(frame, view + 1, count)

\* one OpenGL command of CullSurfaces: a compute dispatch or a memory barrier. read and
\* write are the mip levels of the depth image bound for reading and writing (-1: the depth
\* texture of the frame, or no image), slice the (frame, view) slice both offsets select,
\* frustum the planes and origin passed, locked whether the PVS lock was engaged when they
\* were chosen or is engaged by the iteration, bits the barrier bits
GLCommand(op, read, write, frame, view, frustum, locked, bits) ==
  [op |-> op, read |-> read, write |-> write, frame |-> frame, view |-> view,
   slice |-> IF frame < 0 THEN -1 ELSE SliceOf(frame, view),
   frustum |-> frustum, locked |-> locked, bits |-> bits]

\* glMemoryBarrier( bits )
Barrier(bits) == GLCommand("barrier", -1, -1, -1, -1, 0, FALSE, bits)

\* a dispatch of the depth reduction shader
ReduceCommand(read, write) == GLCommand("depthReduction", read, write, -1, -1, 0, FALSE, {})

\* the commands of DepthReduction (lines 1661-1703): nothing under r_lockpvs; else the
\* initial dispatch, which writes level 0 from the depth texture (lines 1679-1684), then for
\* i = 0 .. depthImageLevels - 1 a dispatch that reads level i and writes level i + 1
\* (lines 1693-1699), each followed by an image-access barrier (line 1701)
DepthReductionCommands(lockpvs) ==
  IF lockpvs THEN << >>
  ELSE <<ReduceCommand(-1, 0)>>
       \o [k \in 1..(2 * DepthImageLevels) |->
             IF k % 2 = 1 THEN ReduceCommand((k - 1) \div 2, (k - 1) \div 2 + 1)
             ELSE Barrier({"SHADER_IMAGE_ACCESS"})]

\* if ( r_gpuOcclusionCulling.Get() ) DepthReduction() (lines 1706-1708)
DepthReductionCommandsIf(occlusion, lockpvs) ==
  IF occlusion THEN DepthReductionCommands(lockpvs) ELSE << >>

\* a view whose two dispatches follow one another with no barrier
ViewCommandsNoBarrier(frame, view, frustum, locked) ==
  <<GLCommand("cull", -1, -1, frame, view, frustum, locked, {}),
    GLCommand("processSurfaces", -1, -1, frame, view, 0, FALSE, {})>>

\* the commands of one iteration of the view loop: the cull dispatch (line 1785), the
\* storage and atomic-counter barrier (line 1792), the process-surfaces dispatch (line 1793)
ViewCommands(frame, view, frustum, locked) ==
  <<GLCommand("cull", -1, -1, frame, view, frustum, locked, {}),
    Barrier({"SHADER_STORAGE", "ATOMIC_COUNTER"}),
    GLCommand("processSurfaces", -1, -1, frame, view, 0, FALSE, {})>>

\* the view loop of CullSurfaces (lines 1725-1794) with the PVS lock, from view on;
\* st = [PVSLocked, lockedFrustums, lockSnapshot, commands]. The planes and origin are
\* chosen before the lock is released or engaged (lines 1730-1742, 1768-1781), and an
\* engaging iteration stores the values of its own view only
RECURSIVE CullViewLoop(_, _, _, _)
CullViewLoop(st, frame, view, count) ==
  IF view >= count THEN st
  ELSE LET live == viewFrustums[frame][view + 1]
           used == IF st.PVSLocked THEN st.lockedFrustums[view] ELSE live
           kept == st.PVSLocked /\ r_lockpvs
           engaged == r_lockpvs /\ ~kept
       IN CullViewLoop(
            [PVSLocked |-> kept \/ engaged,
             lockedFrustums |-> IF engaged THEN [st.lockedFrustums EXCEPT ![view] = live]
                                ELSE st.lockedFrustums,
             lockSnapshot |-> IF engaged
                              THEN [v \in 0..(MAX_VIEWS - 1) |->
                                      IF v < count THEN viewFrustums[frame][v + 1] ELSE 0]
                              ELSE st.lockSnapshot,
             commands |-> st.commands
                            \o ViewCommands(frame, view, used, st.PVSLocked \/ engaged)],
            frame, view + 1, count)

\* lines 1813-1822
StartFrame ==
  /\ pc \in {"idle", "done"}
  /\ callStack = << >>
  /\ IF FrameReturnsEarly
     THEN UNCHANGED <<frameViewCount, viewFrustums>>
     ELSE /\ frameViewCount' = [frameViewCount EXCEPT ![nextFrame] = 0]
          /\ viewFrustums' = [viewFrustums EXCEPT ![nextFrame] = << >>]
  /\ UNCHANGED <<dispatches, frameWrites, frameReads, targets>>
  /\ UNCHANGED <<camera, r_lockpvs, PVSLocked, lockedFrustums, lockSnapshot, glCommands>>
  /\ UNCHANGED <<matVars, portalVars, textureVars, cmdVars>>

\* lines 1655-1659; the renderer queues at most MAX_VIEWS views in a frame, in the order
\* of their ids, each with the origin and frustum of the camera
QueueSurfaceCull ==
  /\ pc \in {"idle", "done"}
  /\ callStack = << >>
  /\ frameViewCount[nextFrame] < MAX_VIEWS
  /\ viewFrustums' = [viewFrustums EXCEPT ![nextFrame] = Append(@, camera)]
  /\ frameViewCount' = [frameViewCount EXCEPT ![nextFrame] = @ + 1]
  /\ UNCHANGED <<dispatches, frameWrites, frameReads, targets>>
  /\ UNCHANGED <<camera, r_lockpvs, PVSLocked, lockedFrustums, lockSnapshot, glCommands>>
  /\ UNCHANGED <<matVars, portalVars, textureVars, cmdVars>>

\* lines 1705-1811
CullSurfaces ==
  /\ pc \in {"idle", "done"}
  /\ callStack = << >>
  /\ \E occlusion \in BOOLEAN :
     \E st \in {CullViewLoop([PVSLocked |-> PVSLocked, lockedFrustums |-> lockedFrustums,
                              lockSnapshot |-> lockSnapshot,
                              commands |-> DepthReductionCommandsIf(occlusion, r_lockpvs)],
                             nextFrame, 0, frameViewCount[nextFrame])} :
       /\ dispatches' = [occlusion |-> occlusion, frame |-> nextFrame,
                         viewCount |-> frameViewCount[nextFrame],
                         log |-> DepthReductionIf(occlusion, r_lockpvs)
                                 \o CullViews(nextFrame, 0, frameViewCount[nextFrame])]
       /\ PVSLocked' = st.PVSLocked
       /\ lockedFrustums' = st.lockedFrustums
       /\ lockSnapshot' = st.lockSnapshot
       /\ glCommands' = st.commands
  /\ frameWrites' = frameWrites \cup
                      {SliceOf(nextFrame, view) : view \in 0..(frameViewCount[nextFrame] - 1)}
  /\ UNCHANGED <<frameViewCount, frameReads, targets>>
  /\ UNCHANGED <<camera, r_lockpvs, viewFrustums>>
  /\ UNCHANGED <<matVars, portalVars, textureVars, cmdVars>>

\* the camera moves (the renderer's view parameters change between frames)
MoveCamera ==
  /\ pc = "done"
  /\ \E c \in Cameras : c # camera /\ camera' = c
  /\ UNCHANGED <<r_lockpvs, viewFrustums, PVSLocked, lockedFrustums, lockSnapshot, glCommands>>
  /\ UNCHANGED <<matVars, portalVars, frameVars, textureVars, cmdVars>>

\* the r_lockpvs cvar is switched between 0 and 1
SetLockPVS ==
  /\ pc = "done"
  /\ r_lockpvs' = ~r_lockpvs
  /\ UNCHANGED <<camera, viewFrustums, PVSLocked, lockedFrustums, lockSnapshot, glCommands>>
  /\ UNCHANGED <<matVars, portalVars, frameVars, textureVars, cmdVars>>

\* lines 2098-2106, for a view of the frame being drawn
RenderIndirect ==
  /\ pc = "done"
  /\ callStack = << >>
  /\ \E viewID \in Views : frameReads' = frameReads \cup {SliceOf(currentFrame, viewID)}
  /\ UNCHANGED <<frameViewCount, dispatches, frameWrites, targets>>
  /\ UNCHANGED <<matVars, portalVars, textureVars, cmdVars, cullVars>>

\* the material system before the first map is loaded
FrameInit == MatInit

\* a map without eligible surfaces is generated and freed; frames run in between
FrameNext ==
  \/ BeginGenerateWorldMaterials
  \/ GenerateWorldMaterialsBuffer
  \/ GenerateWorldCommandBuffer
  \/ Free
  \/ StartFrame
  \/ QueueSurfaceCull
  \/ CullSurfaces
  \/ RenderIndirect
  \/ EndFrame

SpecFrame == FrameInit /\ [][FrameNext]_vars

\* C12: a CullSurfaces call with GPU occlusion culling disabled dispatches no depth
\* reduction; its dispatches are, for every queued view of the frame in order, exactly one
\* cull dispatch followed by one process-surfaces dispatch
C12_NoDepthReduceWhenDisabled ==
  ~dispatches.occlusion =>
    /\ \A k \in 1..Len(dispatches.log) : dispatches.log[k].shader # "depthReduction"
    /\ Len(dispatches.log) = 2 * dispatches.viewCount
    /\ \A view \in 0..(dispatches.viewCount - 1) :
         /\ dispatches.log[2 * view + 1] = Dispatch("cull", dispatches.frame, view, 0)
         /\ dispatches.log[2 * view + 2] = Dispatch("processSurfaces", dispatches.frame, view, 0)

\* occlusion culling disabled in a frame with MAX_VIEWS views queued
C12_Witness ==
  /\ ~dispatches.occlusion
  /\ dispatches.viewCount = MAX_VIEWS
  /\ Len(dispatches.log) = 2 * MAX_VIEWS
  /\ dispatches.frame = nextFrame
  /\ frameViewCount[nextFrame] = MAX_VIEWS

(***************************************************************************)
(* Rendering and texture residency: RenderMaterials, RenderMaterial        *)
(***************************************************************************)
\* bindless textures of the map
NumTextures == 3
\* texture handles that can be resident at once
TextureBudget == 2
\* textures of one Material
MaxMatTextures == 2
\* Materials rendered in one frame
MaxRendered == 3

Textures == 1..NumTextures

\* the Materials of the generated world by position in pack order, one in each pack
RenderMats == 1..3

\* the views RenderMaterials is called for: the main view
RenderViews == {0}

\* material.textures: lists of distinct textures
TextureLists ==
  {l \in SeqsUpTo(Textures, MaxMatTextures) : \A a, b \in 1..Len(l) : a < b => l[a] < l[b]}

\* texture->IsResident() / glIsTextureHandleResidentARB( texture->bindlessTextureHandle )
IsResident(res, texture) == texture \in res

\* texture->MakeResident(): the handle becomes resident unless the budget is used up
MakeResident(res, texture) ==
  IF Cardinality(res \cup {texture}) <= TextureBudget THEN res \cup {texture} ELSE res

\* tex->MakeNonResident() for every resident texture of the list (lines 2187-2191)
RECURSIVE MakeNonResidentAll(_, _, _)
MakeNonResidentAll(res, list, k) ==
  IF k > Len(list) THEN res
  ELSE MakeNonResidentAll(IF IsResident(res, list[k]) THEN res \ {list[k]} ELSE res, list, k + 1)

\* an eviction that stops after the oldest rendered Material
EvictOldestOnly(r, rendered, k) ==
  IF rendered = << >> THEN r
  ELSE [r EXCEPT !.resident = MakeNonResidentAll(@, textures[rendered[1]], 1),
                 !.texturesResident[rendered[1]] = FALSE,
                 !.evicted = <<rendered[1]>>]

\* the eviction loop of lines 2185-2193 over renderedMaterials from position k on;
\* r = [resident, texturesResident, evicted]
RECURSIVE EvictRendered(_, _, _)
EvictRendered(r, rendered, k) ==
  IF k > Len(rendered) THEN r
  ELSE EvictRendered(
         [r EXCEPT !.resident = MakeNonResidentAll(@, textures[rendered[k]], 1),
                   !.texturesResident[rendered[k]] = FALSE,
                   !.evicted = Append(@, rendered[k])],
         rendered, k + 1)

\* the texture loop of lines 2175-2204 for `material` from texture k on;
\* s = [resident, texturesResident, rounds, warned]
RECURSIVE MakeTexturesResident(_, _, _, _)
MakeTexturesResident(s, rendered, material, k) ==
  IF k > Len(textures[material]) THEN s
  ELSE LET texture == textures[material][k] IN
       IF IsResident(s.resident, texture)
       THEN MakeTexturesResident(s, rendered, material, k + 1)
       ELSE LET first == MakeResident(s.resident, texture) IN
            IF IsResident(first, texture)
            THEN MakeTexturesResident([s EXCEPT !.resident = first], rendered, material, k + 1)
            ELSE LET e == EvictRendered([resident |-> first,
                                         texturesResident |-> s.texturesResident,
                                         evicted |-> << >>], rendered, 1)
                     retry == MakeResident(e.resident, texture)
                     s1 == [s EXCEPT !.resident = retry,
                                     !.texturesResident = e.texturesResident,
                                     !.rounds = Append(@, [texture |-> texture,
                                                           evicted |-> e.evicted,
                                                           before |-> first])]
                 IN IF ~IsResident(retry, texture)
                    THEN [s1 EXCEPT !.warned = TRUE]
                    ELSE MakeTexturesResident(s1, rendered, material, k + 1)

\* a RenderMaterial that gives up the draw after the warning
DrawUnlessWarned(warned, debugReturn) == ~warned /\ ~debugReturn

\* whether RenderMaterial reaches RenderIndirect (line 2286) after the residency loop: only
\* the returns of the r_showGlobalMaterials modes (lines 2222-2252) lie in between
DrawIssued(warned, debugReturn) == ~debugReturn

\* RenderMaterial( material, viewID ) (lines 2108-2328); earlyReturn: one of the returns
\* before the residency loop is taken (profiler sub-groups, fog; lines 2111-2146);
\* x = [resident, texturesResident, rendered, log]
RenderMaterial(x, material, earlyReturn, debugReturn) ==
  IF earlyReturn
  THEN [x EXCEPT !.log = Append(@, [material |-> material, early |-> TRUE, rounds |-> << >>,
                                     warned |-> FALSE, debug |-> FALSE,
                                     drawn |-> FALSE])]
  ELSE LET s0 == [resident |-> x.resident, texturesResident |-> x.texturesResident,
                  rounds |-> << >>, warned |-> FALSE]
           s == IF ~x.texturesResident[material]
                THEN MakeTexturesResident(s0, x.rendered, material, 1)
                ELSE s0
       IN [x EXCEPT !.resident = s.resident,
                    !.texturesResident = [s.texturesResident EXCEPT ![material] = TRUE],
                    !.log = Append(@, [material |-> material, early |-> FALSE,
                                       rounds |-> s.rounds, warned |-> s.warned,
                                       debug |-> debugReturn,
                                       drawn |-> DrawIssued(s.warned, debugReturn)])]

\* the pack loop of RenderMaterials (lines 2072-2079) over the Materials lo..hi
RECURSIVE RenderPacks(_, _, _, _, _)
RenderPacks(x, material, hi, earlyMat, debugMat) ==
  IF material > hi THEN x
  ELSE LET y == RenderMaterial(x, material, material = earlyMat, material = debugMat)
       IN RenderPacks([y EXCEPT !.rendered = Append(@, material)], material + 1, hi,
                      earlyMat, debugMat)

\* the renderer starts a frame (frameStart is set outside Material.cpp)
SetFrameStart ==
  /\ pc = "done"
  /\ ~frameStart
  /\ frameStart' = TRUE
  /\ UNCHANGED <<textures, resident, texturesResident, renderedMaterials, renderLog>>
  /\ UNCHANGED <<matVars, portalVars, frameVars, cmdVars, cullVars>>

\* RenderMaterials( fromSort, toSort, viewID ) (lines 2050-2096) with r_drawworld on and
\* r_materialSystemSkip off; the sort range selects one pack or all of them; earlyMat names the
\* Material, if any, that returns before the residency loop, debugMat the one that a
\* r_showGlobalMaterials mode makes return after it. With no dynamic surface
\* UpdateDynamicSurfaces returns at once (line 1624)
RenderMaterials ==
  /\ pc = "done"
  /\ callStack = << >>
  /\ dynamicDrawSurfsSize = 0
  /\ \E lo, hi \in RenderMats : \E viewID \in RenderViews :
     \E earlyMat \in {0, lo} : \E debugMat \in {0, hi} :
       /\ (lo = hi \/ (lo = 1 /\ hi = 3))
       /\ (earlyMat = 0 \/ debugMat = 0)
       /\ Len(IF frameStart THEN << >> ELSE renderedMaterials) + (hi - lo + 1) <= MaxRendered
       /\ \E x \in {RenderPacks([resident |-> resident, texturesResident |-> texturesResident,
                                 rendered |-> IF frameStart THEN << >> ELSE renderedMaterials,
                                 log |-> << >>], lo, hi, earlyMat, debugMat)} :
            /\ resident' = x.resident
            /\ texturesResident' = x.texturesResident
            /\ renderedMaterials' = x.rendered
            /\ renderLog' = x.log
            /\ frameReads' = IF \E k \in 1..Len(x.log) : x.log[k].drawn
                             THEN frameReads \cup {SliceOf(currentFrame, viewID)}
                             ELSE frameReads
  /\ frameStart' = FALSE
  /\ UNCHANGED <<textures, frameViewCount, dispatches, frameWrites, targets>>
  /\ UNCHANGED <<matVars, portalVars, cmdVars, cullVars>>

\* a generated world whose Materials have any texture lists (the first texture of the first
\* Material is named 1)
RenderInit ==
  /\ PortalStateInit(0)
  /\ FrameStateInit
  /\ CmdStateInit
  /\ CullStateInit
  /\ \E tex \in [RenderMats -> TextureLists] : tex[1][1] = 1 /\ TextureStateInit(tex)
  /\ pc = "done"
  /\ drawSurfs = << >>
  /\ materialPacks = << << >>, << >>, << >> >>
  /\ packIDs = <<0, 0, 0>>
  /\ processed = 0
  /\ dynamicDrawSurfsOffset = 0
  /\ dynamicDrawSurfsSize = 0
  /\ dynamicDrawSurfs = << >>
  /\ materialsData = << >>
  /\ writeLog = {}
  /\ totalBatchCount = 0
  /\ surfaceCommandsCount = 0
  /\ surfaceDescriptors = << >>
  /\ generatedWorldCommandBuffer = TRUE

RenderNext ==
  \/ SetFrameStart
  \/ RenderMaterials

SpecRender == RenderInit /\ [][RenderNext]_vars

(***************************************************************************)
(* Properties of texture residency                                         *)
(***************************************************************************)
\* renderedMaterials as the k-th RenderMaterial call of the last RenderMaterials found it
RenderedBefore(k) ==
  SubSeq(renderedMaterials, 1, Len(renderedMaterials) - Len(renderLog) + k - 1)

\* the textures of the first j Materials of the list
TexturesOfFirst(list, j) == UNION {{textures[list[i]][a] : a \in 1..Len(textures[list[i]])} : i \in 1..j}

\* the texture fits the budget once the textures of the j oldest rendered Materials are gone
FitsAfter(before, list, j, texture) ==
  Cardinality((before \ TexturesOfFirst(list, j)) \cup {texture}) <= TextureBudget

\* C13 as stated: a failed MakeResident evicts the textures of the oldest rendered Materials
\* only, as few of them as make the texture fit, whenever some number of them does
C13_EvictsExactlyEnough ==
  \A k \in 1..Len(renderLog) : \A n \in 1..Len(renderLog[k].rounds) :
    LET r == renderLog[k].rounds[n]
        list == RenderedBefore(k)
        j == Len(r.evicted)
    IN (\E i \in 0..Len(list) : FitsAfter(r.before, list, i, r.texture)) =>
         /\ r.evicted = SubSeq(list, 1, j)
         /\ FitsAfter(r.before, list, j, r.texture)
         /\ \A i \in 0..(j - 1) : ~FitsAfter(r.before, list, i, r.texture)

\* C13 amended: a failed MakeResident evicts the textures of every Material rendered so far
\* in the frame, in render order from the oldest, whether or not fewer would do; it happens
\* only for a texture that was not resident and did not fit, and the evicted Materials hold
\* no resident texture when the texture is retried
C13_EvictsAllRendered ==
  \A k \in 1..Len(renderLog) : \A n \in 1..Len(renderLog[k].rounds) :
    LET r == renderLog[k].rounds[n]
        list == RenderedBefore(k)
    IN /\ r.evicted = list
       /\ ~IsResident(r.before, r.texture)
       /\ Cardinality(r.before \cup {r.texture}) > TextureBudget
       /\ ~renderLog[k].early

\* two Materials rendered and resident, a third whose texture does not fit: both are
\* evicted although evicting the older alone would do
C13_Witness ==
  \E k \in 1..Len(renderLog) : \E n \in 1..Len(renderLog[k].rounds) :
    LET r == renderLog[k].rounds[n]
        list == RenderedBefore(k)
    IN /\ Len(list) >= 2
       /\ r.evicted = list
       /\ FitsAfter(r.before, list, 1, r.texture)
       /\ ~FitsAfter(r.before, list, 0, r.texture)
       /\ TexturesOfFirst(list, Len(list)) \ TexturesOfFirst(list, 1) # {}
       /\ (TexturesOfFirst(list, Len(list)) \ TexturesOfFirst(list, 1)) \subseteq r.before
       /\ ~renderLog[k].warned
       /\ renderLog[k].drawn

\* C17: a RenderMaterial whose texture is still not resident after the textures of every
\* Material rendered so far in the frame were evicted and MakeResident was retried warns,
\* leaves the texture loop and issues its indirect draw exactly as it would without the
\* failure (only a r_showGlobalMaterials return keeps a Material from its draw, warned or
\* not); the pack loop goes on with the Materials after it, and the Material is left marked
\* texturesResident
C17_WarnThenDraw ==
  /\ \A k \in 1..Len(renderLog) :
       LET e == renderLog[k] IN
       /\ ~e.early => e.drawn = ~e.debug
       /\ e.warned =>
            /\ ~e.early
            /\ e.rounds # << >>
            /\ e.rounds[Len(e.rounds)].evicted = RenderedBefore(k)
            /\ ~e.debug => e.drawn
       /\ e.material = renderedMaterials[Len(renderedMaterials) - Len(renderLog) + k]
       /\ k > 1 => e.material = renderLog[k - 1].material + 1
  /\ Len(renderLog) \in {0, 1, Cardinality(RenderMats)}
  /\ renderLog # << >> /\ ~renderLog[Len(renderLog)].early =>
       texturesResident[renderLog[Len(renderLog)].material]

\* a Material warned after evicting a rendered Material in vain, was drawn all the same, and
\* the Material after it in the pack loop was rendered too
C17_Witness ==
  \E k \in 1..(Len(renderLog) - 1) :
    /\ renderLog[k].warned
    /\ renderLog[k].drawn
    /\ RenderedBefore(k) # << >>
    /\ ~renderLog[k + 1].early
    /\ renderLog[k + 1].drawn

\* the last RenderMaterial of the last RenderMaterials call: nothing changes the resident
\* set between its texture loop and its draw, nor after it
LastRendered == renderLog[Len(renderLog)]

\* C29: when RenderMaterial issues the draw of a Material marked texturesResident without
\* having warned, every texture of the Material is resident at the draw, also when
\* textures it shares with Materials rendered before were evicted in the same call
C29_DrawnTexturesResident ==
  (/\ renderLog # << >>
   /\ ~LastRendered.early
   /\ LastRendered.drawn
   /\ ~LastRendered.warned
   /\ texturesResident[LastRendered.material])
  => \A k \in 1..Len(textures[LastRendered.material]) :
       IsResident(resident, textures[LastRendered.material][k])

(***************************************************************************)
(* Properties of frame scheduling                                          *)
(***************************************************************************)
\* C14: in every state reached by Free, StartFrame, EndFrame (and the frames' culling and
\* drawing) currentFrame and nextFrame differ and are below MAX_FRAMES, so no (frame, view)
\* slice CullSurfaces writes for nextFrame is a slice RenderIndirect reads for currentFrame,
\* for any views below MAX_VIEWS; the slices written and read in one frame are disjoint
C14_FrameSlicesDisjoint ==
  /\ currentFrame # nextFrame
  /\ currentFrame \in 0..(MAX_FRAMES - 1)
  /\ nextFrame \in 0..(MAX_FRAMES - 1)
  /\ \A v, w \in Views : SliceOf(nextFrame, v) # SliceOf(currentFrame, w)
  /\ frameWrites \cap frameReads = {}
  /\ \A k \in 1..Len(dispatches.log) :
       dispatches.log[k].shader # "depthReduction" =>
         SliceOf(dispatches.log[k].frame, dispatches.log[k].view) \in 0..(MAX_FRAMES * MAX_VIEWS - 1)

\* a frame after a wrap of nextFrame and a Free in which slices were written and read
C14_Witness ==
  /\ \E k \in 1..Len(targets) : targets[k] = -1
  /\ \E k \in 1..Len(targets) : targets[k] = 0
  /\ Len(targets) >= MAX_FRAMES + 1
  /\ Cardinality(frameWrites) >= 2
  /\ frameReads # {}
  /\ currentFrame = MAX_FRAMES - 1
  /\ nextFrame = 0

\* the slot after `frame` in the cycle 0 .. MAX_FRAMES - 1
SlotAfter(frame) == (frame + 1) % MAX_FRAMES

\* the write targets of the frames ended so far, without the marks of Free
TargetsOnly == SelectSeq(targets, LAMBDA x : x # -1)

\* C15 as stated: every EndFrame call makes currentFrame the slot that was nextFrame, and a
\* slot that was the write target is the write target again exactly MAX_FRAMES ended
\* frames later and not before
C15_SlotReusedAfterMaxFrames ==
  /\ [](\A i, j \in 1..Len(TargetsOnly) :
          i < j /\ TargetsOnly[i] = TargetsOnly[j] => (j - i) % MAX_FRAMES = 0)
  /\ [][frameCount' = frameCount + 1 =>
          currentFrame' = nextFrame /\ nextFrame' = SlotAfter(nextFrame)]_vars

\* C15 amended: an EndFrame call while the world is generated makes currentFrame the slot
\* that was nextFrame and moves nextFrame to the next slot of the cycle; without a generated
\* world it changes neither. Free sets them to 0 and 1. Between two Free calls the write
\* target starts at slot 1 and is the same slot again exactly every MAX_FRAMES ended frames
C15_SlotCycleBetweenFrees ==
  /\ [](/\ \A k \in 1..Len(targets) :
             targets[k] # -1 =>
               IF k = 1 \/ targets[k - 1] = -1 THEN targets[k] = 1
               ELSE targets[k] = SlotAfter(targets[k - 1])
        /\ \A i, j \in 1..Len(targets) :
             (i < j /\ \A k \in i..j : targets[k] # -1) =>
               (targets[i] = targets[j] <=> (j - i) % MAX_FRAMES = 0)
        /\ (targets # << >> /\ targets[Len(targets)] # -1) =>
             /\ currentFrame = targets[Len(targets)]
             /\ nextFrame = SlotAfter(currentFrame))
  /\ [][frameCount' = frameCount + 1 =>
          IF generatedWorldCommandBuffer
          THEN currentFrame' = nextFrame /\ nextFrame' = SlotAfter(nextFrame)
          ELSE currentFrame' = currentFrame /\ nextFrame' = nextFrame]_vars
  /\ [][pc = "done" /\ pc' = "idle" => currentFrame' = 0 /\ nextFrame' = 1]_vars

\* a frame ended, a Free, then MAX_FRAMES + 1 frames ended in a row, the first and the last
\* of them with the same write target
C15_Witness ==
  /\ Len(targets) >= MAX_FRAMES + 3
  /\ \A k \in (Len(targets) - MAX_FRAMES)..Len(targets) : targets[k] # -1
  /\ targets[Len(targets) - MAX_FRAMES - 1] = -1
  /\ targets[Len(targets)] = targets[Len(targets) - MAX_FRAMES]
  /\ frameCount = MaxFrameCount

(***************************************************************************)
(* Properties of the Material search of ProcessStage                       *)
(***************************************************************************)
\* the candidate Material ProcessStage searched for at stage k of surface s
CandidateOf(s, k) ==
  Candidate(drawSurfs[s].shader, drawSurfs[s].shader.stages[k + 1], k,
            IF k > 0 THEN drawSurfs[s].materialIDs[k] ELSE 0)

\* C18: for every surface and every stage k > 0 the Material of stage k is in the pack of
\* stage k - 1 and its id is not below the id of the Material of stage k - 1, the sync
\* target; it structurally matches the stage, and no Material of the pack from the sync
\* target up to it does: matches below the sync target are passed over, the first one at or
\* after it is taken
C18_StageOrderKept ==
  Classified =>
    \A x \in Instances :
      LET s == x[1]
          k == x[2]
          p == drawSurfs[s].materialPackIDs[k + 1] + 1
          id == drawSurfs[s].materialIDs[k + 1]
      IN /\ id < Len(materialPacks[p])
         /\ materialPacks[p][id + 1].id = id
         /\ MaterialEq(materialPacks[p][id + 1], CandidateOf(s, k))
         /\ k > 0 =>
              /\ drawSurfs[s].materialPackIDs[k] = p - 1
              /\ id >= drawSurfs[s].materialIDs[k]
              /\ \A j \in drawSurfs[s].materialIDs[k]..(id - 1) :
                   ~MaterialEq(materialPacks[p][j + 1], CandidateOf(s, k))

\* a stage k > 0 with a structural match below its sync target: the match was passed over
\* and the stage went to a Material after the sync target
C18_Witness ==
  /\ Classified
  /\ \E x \in Instances :
       /\ x[2] > 0
       /\ \E j \in 0..(drawSurfs[x[1]].materialIDs[x[2]] - 1) :
            MaterialEq(materialPacks[drawSurfs[x[1]].materialPackIDs[x[2] + 1] + 1][j + 1],
                       CandidateOf(x[1], x[2]))
       /\ drawSurfs[x[1]].materialIDs[x[2] + 1] > drawSurfs[x[1]].materialIDs[x[2]]

(***************************************************************************)
(* Properties of the batch layout                                          *)
(***************************************************************************)
\* C19: after GenerateWorldCommandBuffer the batch count of every Material is the least
\* number of batches of SURFACE_COMMANDS_PER_BATCH commands that hold its draw commands
\* (0 for none), and its batch offset is the sum of the batch counts of the Materials before
\* it in pack order: the batch ranges follow one another without gap or overlap from 0 up to
\* totalBatchCount
C19_BatchRangesContiguous ==
  pc = "done" =>
    LET counts == [n \in 1..Len(Mats) |-> Mats[n].surfaceCommandBatchCount] IN
    /\ \A n \in 1..Len(Mats) :
         LET size == Len(Mats[n].drawCommands)
             count == Mats[n].surfaceCommandBatchCount
         IN /\ count >= 0
            /\ count * SURFACE_COMMANDS_PER_BATCH >= size
            /\ (count - 1) * SURFACE_COMMANDS_PER_BATCH < size
            /\ size = 0 => count = 0
            /\ Mats[n].surfaceCommandBatchOffset = SumTo(counts, n - 1)
            /\ n < Len(Mats) =>
                 Mats[n + 1].surfaceCommandBatchOffset = Mats[n].surfaceCommandBatchOffset + count
    /\ Len(Mats) > 0 =>
         Mats[Len(Mats)].surfaceCommandBatchOffset + counts[Len(Mats)] = totalBatchCount

\* a Material whose commands fill one batch and part of a second, followed by a Material
\* whose range starts after both
C19_Witness ==
  /\ pc = "done"
  /\ \E n \in 1..(Len(Mats) - 1) :
       /\ Len(Mats[n].drawCommands) = SURFACE_COMMANDS_PER_BATCH + 1
       /\ Mats[n].surfaceCommandBatchCount = 2
       /\ Mats[n + 1].surfaceCommandBatchOffset = Mats[n].surfaceCommandBatchOffset + 2
       /\ Mats[n + 1].surfaceCommandBatchCount = 1

(***************************************************************************)
(* Properties of the layout around empty regions                           *)
(***************************************************************************)
\* the running offset when the static pass reaches Material n
StaticBefore(n) == IF n = 1 THEN 0 ELSE StaticEnd(n - 1)

\* the running offset when the dynamic pass reaches Material n
DynamicBefore(n) == IF n = 1 THEN StaticEnd(Len(Mats)) ELSE DynamicEnd(n - 1)

\* C20 as stated: a Material with no instance in a region leaves the running offset of
\* that region as it found it
C20_EmptyRegionAddsNothing ==
  Built =>
    \A n \in 1..Len(Mats) :
      /\ Mats[n].totalStaticDrawSurfCount = 0 => StaticEnd(n) = StaticBefore(n)
      /\ Mats[n].totalDynamicDrawSurfCount = 0 => DynamicEnd(n) = DynamicBefore(n)

\* C20 amended: in both passes every Material, with or without instances in the region,
\* first brings the running offset up to the next integer multiple of its own stride; a
\* Material with no instance in the region adds that padding (less than its stride, none
\* exactly when the offset is already a multiple) and nothing else
C20_EmptyRegionAddsPaddingOnly ==
  Built =>
    \A n \in 1..Len(Mats) :
      LET stride == Stride(Mats[n])
          static == Mats[n].staticMaterialsSSBOOffset
          dynamic == Mats[n].dynamicMaterialsSSBOOffset
      IN /\ static % stride = 0
         /\ static - StaticBefore(n) \in 0..(stride - 1)
         /\ dynamic % stride = 0
         /\ dynamic - DynamicBefore(n) \in 0..(stride - 1)
         /\ Mats[n].totalStaticDrawSurfCount = 0 =>
              /\ StaticEnd(n) = static
              /\ (StaticEnd(n) = StaticBefore(n)) = (StaticBefore(n) % stride = 0)
         /\ Mats[n].totalDynamicDrawSurfCount = 0 =>
              /\ DynamicEnd(n) = dynamic
              /\ (DynamicEnd(n) = DynamicBefore(n)) = (DynamicBefore(n) % stride = 0)

\* a Material without static instances and one without dynamic instances, each of which
\* moved the running offset of its empty region by its padding; the Material after the
\* first of them starts later than it would have without that padding
C20_Witness ==
  /\ Built
  /\ \E n \in 1..Len(Mats) : /\ Mats[n].totalDynamicDrawSurfCount = 0
                             /\ DynamicEnd(n) > DynamicBefore(n)
  /\ \E n \in 2..(Len(Mats) - 1) :
       /\ Mats[n].totalStaticDrawSurfCount = 0
       /\ StaticEnd(n) > StaticBefore(n)
       /\ Mats[n + 1].staticMaterialsSSBOOffset >
            StaticBefore(n) + Padding(StaticBefore(n), Stride(Mats[n + 1]))

(***************************************************************************)
(* Properties of the dynamic surface list                                  *)
(***************************************************************************)
\* the surface has a dynamic stage
HasDynamicStages(s) ==
  \E k \in 1..Len(drawSurfs[s].shader.stages) : drawSurfs[s].shader.stages[k].dynamic

\* the positions of dynamicDrawSurfs that hold a copy of surface s
CopiesOf(s) == {c \in 1..Len(dynamicDrawSurfs) : dynamicDrawSurfs[c].surface = drawSurfs[s].surface}

\* C21: right after GenerateWorldMaterialsBuffer dynamicDrawSurfs holds one copy of every
\* surface with a dynamic stage and none of any other surface, and every copy has the
\* buffer offsets and initialized flags the surface has at the end of the build
C21_OneCopyPerDynamicSurface ==
  pc = "buffer" =>
    \A s \in 1..Len(drawSurfs) :
      /\ Cardinality(CopiesOf(s)) = IF HasDynamicStages(s) THEN 1 ELSE 0
      /\ \A c \in CopiesOf(s) :
           /\ dynamicDrawSurfs[c].materialsSSBOOffset = drawSurfs[s].materialsSSBOOffset
           /\ dynamicDrawSurfs[c].initialized = drawSurfs[s].initialized

(***************************************************************************)
(* Properties of the slots of the stage instances                          *)
(***************************************************************************)
\* the draw command of stage k of surface s
CommandOf(s, k) == MaterialOf(s, k).drawCommands[drawSurfs[s].drawCommandIDs[k + 1] + 1]

\* the first word of the slot the build gave stage k of surface s
SlotWord(s, k) == CommandOf(s, k).baseInstance * Stride(MaterialOf(s, k))

\* stage k of surface s is dynamic
IsDynamic(s, k) == drawSurfs[s].shader.stages[k + 1].dynamic

\* the words of the static and of the dynamic region of a Material
StaticWords(m) ==
  m.staticMaterialsSSBOOffset..(m.staticMaterialsSSBOOffset + Stride(m) * m.totalStaticDrawSurfCount - 1)
DynamicWords(m) ==
  m.dynamicMaterialsSSBOOffset..(m.dynamicMaterialsSSBOOffset + Stride(m) * m.totalDynamicDrawSurfCount - 1)

\* C22: after the build every stage instance has a slot of its own in the region of its
\* Material and kind: the slot starts a whole number k of strides after the region's base,
\* with k below the region's instance count and distinct for distinct instances; the current
\* counts have reached the total counts; the regions of different Materials share no word
C22_SlotsInOwnRegion ==
  Built =>
    LET mats == Mats
        slots == [x \in Instances |-> SlotWord(x[1], x[2])]
    IN
    /\ \A n \in 1..Len(mats) :
         /\ mats[n].currentStaticDrawSurfCount = mats[n].totalStaticDrawSurfCount
         /\ mats[n].currentDynamicDrawSurfCount = mats[n].totalDynamicDrawSurfCount
         /\ Len(mats[n].drawCommands) = mats[n].totalDrawSurfCount
         /\ StaticWords(mats[n]) \cap DynamicWords(mats[n]) = {}
         /\ \A o \in 1..Len(mats) :
              o # n => /\ StaticWords(mats[n]) \cap StaticWords(mats[o]) = {}
                       /\ StaticWords(mats[n]) \cap DynamicWords(mats[o]) = {}
                       /\ DynamicWords(mats[n]) \cap DynamicWords(mats[o]) = {}
    /\ \A x \in Instances :
         LET m == MaterialOf(x[1], x[2])
             base == IF IsDynamic(x[1], x[2]) THEN m.dynamicMaterialsSSBOOffset
                     ELSE m.staticMaterialsSSBOOffset
             count == IF IsDynamic(x[1], x[2]) THEN m.totalDynamicDrawSurfCount
                      ELSE m.totalStaticDrawSurfCount
         IN /\ \E k \in 0..(count - 1) : slots[x] = base + k * Stride(m)
            /\ ~IsDynamic(x[1], x[2]) =>
                 drawSurfs[x[1]].materialsSSBOOffset[x[2] + 1] = CommandOf(x[1], x[2]).baseInstance
            /\ \A y \in Instances : y # x => slots[y] # slots[x]

\* Materials of different strides, one with two static and one with two dynamic instances
C22_Witness ==
  /\ Built
  /\ \E n, o \in 1..Len(Mats) :
       /\ Stride(Mats[n]) # Stride(Mats[o])
       /\ Mats[n].currentStaticDrawSurfCount >= 2
       /\ Mats[o].currentDynamicDrawSurfCount >= 2

\* the first word the per-frame update writes for stage k of surface s: the buffer is
\* mapped at dynamicDrawSurfsOffset (line 1629) and the updater writes at the stored
\* index times the stride
UpdateWord(s, k) ==
  dynamicDrawSurfsOffset + drawSurfs[s].materialsSSBOOffset[k + 1] * Stride(MaterialOf(s, k))

\* C27: after the build, for every dynamic stage instance the word the per-frame update
\* writes (dynamicDrawSurfsOffset + rebased index * stride) is the word its draw command
\* addresses (baseInstance * stride), whatever the strides of the Materials are
C27_UpdateWordIsDrawWord ==
  Built => \A x \in Instances : IsDynamic(x[1], x[2]) => UpdateWord(x[1], x[2]) = SlotWord(x[1], x[2])

(***************************************************************************)
(* Properties of the global command ids                                    *)
(***************************************************************************)
\* the global id of draw command c of the n-th Material
GlobalCommandID(mats, n, c) == mats[n].surfaceCommandBatchOffset * SURFACE_COMMANDS_PER_BATCH + c

\* C28: after GenerateWorldCommandBuffer the global command id surfaceCommandBatchOffset *
\* SURFACE_COMMANDS_PER_BATCH + drawCommandID is below surfaceCommandsCount for every draw
\* command of every Material and differs for different (Material, draw command) pairs; the
\* descriptor of a surface holds, for every stage, the id of the stage's draw command plus
\* one, which is never 0
C28_CommandIDsDistinctInRange ==
  pc = "done" =>
    LET mats == Mats
        pairs == {<<n, c>> \in (1..Len(mats)) \X (0..MaxInstances) : c < Len(mats[n].drawCommands)}
        ids == [x \in pairs |-> GlobalCommandID(mats, x[1], x[2])]
    IN /\ \A x \in pairs : ids[x] >= 0 /\ ids[x] < surfaceCommandsCount
       /\ \A x, y \in pairs : x # y => ids[x] # ids[y]
       /\ Len(surfaceDescriptors) = Len(drawSurfs)
       /\ \A x \in Instances :
            LET m == MaterialOf(x[1], x[2])
                c == drawSurfs[x[1]].drawCommandIDs[x[2] + 1]
                stored == surfaceDescriptors[x[1]][x[2]]
            IN /\ c >= 0 /\ c < Len(m.drawCommands)
               /\ stored = m.surfaceCommandBatchOffset * SURFACE_COMMANDS_PER_BATCH + c + 1
               /\ stored # 0
       /\ \A x, y \in Instances :
            x # y => surfaceDescriptors[x[1]][x[2]] # surfaceDescriptors[y[1]][y[2]]

\* several Materials with draw commands, the first with more than one batch of them
C28_Witness ==
  /\ pc = "done"
  /\ Len(Mats) >= 2
  /\ Mats[1].surfaceCommandBatchCount >= 2
  /\ \A n \in 1..Len(Mats) : Len(Mats[n].drawCommands) >= 1
  /\ Cardinality(Instances) = MaxInstances

(***************************************************************************)
(* The draw command under construction: AddTexture and AddDrawCommand.     *)
(***************************************************************************)

\* how many draw commands the model stores
MaxCommands == 2

\* a mutation of TextureCountFull: the test is off by one
TextureCountOver(count) == count > MAX_DRAWCOMMAND_TEXTURES

\* cmd.textureCount >= MAX_DRAWCOMMAND_TEXTURES (line 1947)
TextureCountFull(count) == count >= MAX_DRAWCOMMAND_TEXTURES

\* MaterialSystem::AddTexture (lines 1946-1952): Sys::Drop leaves the function before the
\* store; otherwise the texture goes to cmd.textures[cmd.textureCount] (slots are numbered
\* from 1 here) and the count grows by one
AddTexture ==
  /\ \E texture \in Textures :
       IF TextureCountFull(cmd.textureCount)
       THEN /\ dropped' = TRUE
            /\ UNCHANGED cmd
       ELSE /\ cmd' = [textures |-> [cmd.textures EXCEPT ![cmd.textureCount + 1] = texture],
                       textureCount |-> cmd.textureCount + 1]
            /\ UNCHANGED dropped
  /\ UNCHANGED commands
  /\ UNCHANGED <<matVars, portalVars, frameVars, textureVars, cullVars>>

\* MaterialSystem::AddDrawCommand (lines 1934-1944): a copy of cmd is stored and
\* cmd.textureCount is reset; cmd.textures keeps its content
AddDrawCommand ==
  /\ Len(commands) < MaxCommands
  /\ \E materialsSSBOOffset \in 0..1 :
       commands' = Append(commands, [textures |-> cmd.textures,
                                     textureCount |-> cmd.textureCount,
                                     materialsSSBOOffset |-> materialsSSBOOffset])
  /\ cmd' = [cmd EXCEPT !.textureCount = 0]
  /\ UNCHANGED dropped
  /\ UNCHANGED <<matVars, portalVars, frameVars, textureVars, cullVars>>

CmdInit == MatInit

CmdNext ==
  \/ AddTexture
  \/ AddDrawCommand

SpecCmd == CmdInit /\ [][CmdNext]_vars

\* C16: cmd.textureCount never exceeds MAX_DRAWCOMMAND_TEXTURES and counts the slots
\* written since the last AddDrawCommand; an AddTexture on a full draw command drops without
\* storing the texture or changing the count; AddDrawCommand resets the count to 0 and
\* stores at most MAX_DRAWCOMMAND_TEXTURES textures
C16_TextureCountBounded ==
  /\ [](/\ cmd.textureCount \in 0..MAX_DRAWCOMMAND_TEXTURES
        /\ \A k \in 1..cmd.textureCount : cmd.textures[k] \in Textures
        /\ \A k \in 1..Len(commands) :
             commands[k].textureCount \in 0..MAX_DRAWCOMMAND_TEXTURES)
  /\ [][AddTexture /\ cmd.textureCount >= MAX_DRAWCOMMAND_TEXTURES =>
          dropped' /\ cmd' = cmd]_vars
  /\ [][AddTexture /\ cmd.textureCount < MAX_DRAWCOMMAND_TEXTURES =>
          /\ cmd'.textureCount = cmd.textureCount + 1
          /\ cmd'.textures[cmd'.textureCount] \in Textures
          /\ dropped' = dropped]_vars
  /\ [][AddDrawCommand => cmd'.textureCount = 0]_vars
  /\ [][dropped' /\ ~dropped => cmd.textureCount = MAX_DRAWCOMMAND_TEXTURES]_vars

\* a full draw command was offered one more texture, which was dropped, and the command was
\* then stored and the count reset
C16_Witness ==
  /\ dropped
  /\ Len(commands) > 0
  /\ commands[Len(commands)].textureCount = MAX_DRAWCOMMAND_TEXTURES
  /\ cmd.textureCount = 0

(***************************************************************************)
(* Culling with the PVS lock: the commands of CullSurfaces                 *)
(***************************************************************************)
\* a generated world without eligible surfaces, before its first frame
CullInit ==
  /\ PortalStateInit(0)
  /\ FrameStateInit
  /\ CmdStateInit
  /\ CullStateInit
  /\ TextureStateInit(<< >>)
  /\ pc = "done"
  /\ drawSurfs = << >>
  /\ materialPacks = << << >>, << >>, << >> >>
  /\ packIDs = <<0, 0, 0>>
  /\ processed = 0
  /\ dynamicDrawSurfsOffset = 0
  /\ dynamicDrawSurfsSize = 0
  /\ dynamicDrawSurfs = << >>
  /\ materialsData = << >>
  /\ writeLog = {}
  /\ totalBatchCount = 0
  /\ surfaceCommandsCount = 0
  /\ surfaceDescriptors = << >>
  /\ generatedWorldCommandBuffer = TRUE

\* frames are culled while the camera moves and r_lockpvs is switched
CullNext ==
  \/ StartFrame
  \/ QueueSurfaceCull
  \/ CullSurfaces
  \/ MoveCamera
  \/ SetLockPVS

SpecCull == CullInit /\ [][CullNext]_vars

\* the positions of the depth-reduction dispatches among the commands
ReduceDispatches == {k \in 1..Len(glCommands) : glCommands[k].op = "depthReduction"}

\* dispatch j is the depth-reduction dispatch that follows dispatch i
NextReduce(i, j) ==
  /\ i < j
  /\ \A k \in (i + 1)..(j - 1) : k \notin ReduceDispatches

\* an image-access barrier lies between commands i and j
ImageBarrierBetween(i, j) ==
  \E k \in (i + 1)..(j - 1) :
    glCommands[k].op = "barrier" /\ "SHADER_IMAGE_ACCESS" \in glCommands[k].bits

\* C23: whenever a depth-reduction dispatch reads the level the dispatch before it wrote,
\* an image-access memory barrier is issued between the two, the initial dispatch that
\* writes level 0 and the first reduction of level 0 included
C23_BarrierBetweenLevels ==
  \A i, j \in ReduceDispatches :
    NextReduce(i, j) /\ glCommands[j].read = glCommands[i].write => ImageBarrierBetween(i, j)

\* the mip levels GenerateDepthImages allocates (lines 973-977)
AllocatedLevels == 0..(DepthImageLevels - 1)

\* C30: every mip level of the depth image that DepthReduction binds for reading or writing
\* is one of the allocated levels
C30_LevelsAllocated ==
  \A k \in ReduceDispatches :
    /\ glCommands[k].read # -1 => glCommands[k].read \in AllocatedLevels
    /\ glCommands[k].write \in AllocatedLevels

\* C24: for every queued view, in order, CullSurfaces issues the cull dispatch, then a
\* memory barrier with the storage and the atomic-counter bit, then the process-surfaces
\* dispatch, all three next to one another; both dispatches carry the frame nextFrame and
\* the view and select the slice MAX_VIEWS * nextFrame + view
C24_CullBarrierCompact ==
  LET first == Cardinality({k \in 1..Len(glCommands) :
                              glCommands[k].op \notin {"cull", "barrier", "processSurfaces"}
                              \/ (glCommands[k].op = "barrier"
                                  /\ "SHADER_IMAGE_ACCESS" \in glCommands[k].bits)})
  IN /\ Len(glCommands) = first + 3 * dispatches.viewCount
     /\ \A view \in 0..(dispatches.viewCount - 1) :
          LET c == glCommands[first + 3 * view + 1]
              b == glCommands[first + 3 * view + 2]
              p == glCommands[first + 3 * view + 3]
          IN /\ c.op = "cull" /\ b.op = "barrier" /\ p.op = "processSurfaces"
             /\ {"SHADER_STORAGE", "ATOMIC_COUNTER"} \subseteq b.bits
             /\ c.frame = dispatches.frame /\ p.frame = dispatches.frame
             /\ c.view = view /\ p.view = view
             /\ c.slice = SliceOf(dispatches.frame, view)
             /\ p.slice = c.slice
     /\ \A k \in 1..first : glCommands[k].op \notin {"cull", "processSurfaces"}

\* a frame with MAX_VIEWS views was culled after a depth reduction
C24_Witness ==
  /\ dispatches.viewCount = MAX_VIEWS
  /\ dispatches.occlusion
  /\ \E k \in 1..Len(glCommands) : glCommands[k].op = "depthReduction"
  /\ \E k \in 2..Len(glCommands) :
       /\ glCommands[k].op = "barrier"
       /\ glCommands[k - 1].op = "cull"
       /\ glCommands[k - 1].view = MAX_VIEWS - 1

\* C25: in every CullSurfaces call, a view culled under the PVS lock gets the planes and
\* origin it had in the frame in which the lock was engaged, whatever the camera did since,
\* and a view culled without the lock gets the values queued for it in this frame
C25_LockFreezesEveryView ==
  [][CullSurfaces =>
       \A k \in 1..Len(glCommands') :
         glCommands'[k].op = "cull" =>
           LET view == glCommands'[k].view IN
           IF glCommands'[k].locked
           THEN lockSnapshot'[view] # 0 => glCommands'[k].frustum = lockSnapshot'[view]
           ELSE glCommands'[k].frustum = viewFrustums[nextFrame][view + 1]]_vars

\* ---------------------------------------------------------------------------------------
\* Free and the frames around it
\* ---------------------------------------------------------------------------------------

\* the state Free leaves behind when the world it freed had NumPortals portal surfaces:
\* totalPortals is not reset by Free (lines 1893-1931), the lists are empty
FreeInit ==
  /\ totalPortals = NumPortals
  /\ offScreen = [p \in 0..(NumPortals - 1) |-> FALSE]
  /\ portalSurfaces = << >>
  /\ frames = ZeroFrames
  /\ currentFrame = 0
  /\ nextFrame = 1
  /\ viewCount = 0
  /\ portalStack = ZeroPortalStack
  /\ callStack = << >>
  /\ portalSurfs = Unread
  /\ assigned = << >>
  /\ capHit = FALSE
  /\ calls = 0
  /\ portalResult = "none"
  /\ frameCount = 0
  /\ FrameStateInit
  /\ TextureStateInit(<< >>)
  /\ CmdStateInit
  /\ CullStateInit
  /\ pc = "idle"
  /\ drawSurfs = << >>
  /\ materialPacks = << << >>, << >>, << >> >>
  /\ packIDs = <<0, 0, 0>>
  /\ processed = 0
  /\ dynamicDrawSurfsOffset = 0
  /\ dynamicDrawSurfsSize = 0
  /\ dynamicDrawSurfs = << >>
  /\ materialsData = << >>
  /\ writeLog = {}
  /\ totalBatchCount = 0
  /\ surfaceCommandsCount = 0
  /\ surfaceDescriptors = << >>
  /\ generatedWorldCommandBuffer = FALSE

\* the worlds generated around a Free have at most this many surfaces
FreeMaxSurfs == 1

\* generation, Free and the frame operations; GenerateWorldMaterials runs to its end
\* before the next frame operation, so no frame ends inside it, and once a world with
\* surfaces was generated and freed no further world is loaded
FreeNext ==
  \/ (drawSurfs = << >> /\ BeginGenerateWorldMaterials)
  \/ (Len(drawSurfs) < FreeMaxSurfs /\ ProcessSurface)
  \/ GenerateWorldMaterialsBuffer
  \/ GenerateWorldCommandBuffer
  \/ Free
  \/ StartFrame
  \/ QueueSurfaceCull
  \/ (pc \in {"idle", "done"} /\ EndFrame)

SpecFree == FreeInit /\ [][FreeNext]_vars

\* the frame state of the MaterialSystem: the frame indices, the views queued in every
\* frame slot and what the frame wrote and read
frameState == <<currentFrame, nextFrame, frameViewCount, viewFrustums, frames, targets,
                frameWrites, frameReads>>

\* C26: Free leaves every pack without Materials, the dynamic surface list, the portal
\* list and renderedMaterials empty, currentFrame 0 and nextFrame 1; from then on
\* StartFrame and EndFrame change no frame state while the world is not generated, and
\* the world counts as generated only when GenerateWorldMaterials completes.
C26_FreeResetsAndFramesIdle ==
  [][ /\ Free =>
           /\ \A p \in 1..Len(materialPacks') : materialPacks'[p] = << >>
           /\ dynamicDrawSurfs' = << >>
           /\ portalSurfaces' = << >>
           /\ renderedMaterials' = << >>
           /\ currentFrame' = 0
           /\ nextFrame' = 1
           /\ ~generatedWorldCommandBuffer'
      /\ (StartFrame \/ EndFrame) /\ ~generatedWorldCommandBuffer => UNCHANGED frameState
      /\ ~generatedWorldCommandBuffer /\ generatedWorldCommandBuffer' =>
           pc = "buffer" /\ pc' = "done" ]_vars

\* a world with Materials, dynamic surfaces and portal surfaces was freed after a frame
\* had advanced the frame indices, and a later EndFrame left them at 0 and 1
C26_Witness ==
  /\ pc = "idle"
  /\ ~generatedWorldCommandBuffer
  /\ drawSurfs # << >>
  /\ totalPortals > 0
  /\ portalSurfaces = << >>
  /\ Len(targets) = 2
  /\ targets[2] = -1
  /\ frameCount = 3
  /\ currentFrame = 0
  /\ nextFrame = 1

====
